---- MODULE Spec2Model ----
(***************************************************************************)
(* Model of the project file tree, its undo/redo history and the handlers  *)
(* of IDEView that mutate them and mirror the mutations into the           *)
(* WebContainer filesystem.                                                *)
(*                                                                         *)
(* A path is the sequence of its segments: "/src/a" is <<"src", "a">> and  *)
(* "/" is <<>>.  A tree (FileNode[]) is a sequence of node records.        *)
(***************************************************************************)
EXTENDS Integers, Sequences, FiniteSets, TLC

(***************************************************************************)
(* Bounds of the model.                                                    *)
(***************************************************************************)
\* mutating handler invocations, handlers suspended at an await, nodes in a
\* selection, pushes of the history round trip
MaxOps == 2
MaxTasks == 2
MaxSel == 1
MaxPushes == 3
\* calls of the tree functions in a sequence
MaxCalls == 3

NodeNames == {"src", "a"}
Contents == {"x", "y"}
NodeTypes == {"file", "folder"}

\* JavaScript's undefined where a tree is expected (history[-1]), an absent
\* content field, and null.
undefined == <<[type |-> "undefined"]>>
Null == [type |-> "null"]
NoContent == "<undefined>"

(***************************************************************************)
(* FileNode values.                                                        *)
(***************************************************************************)
FileNode(name, type, path, content, children) ==
    [name |-> name, type |-> type, path |-> path,
     content |-> content, children |-> children]

NewFile(name, path, content) == FileNode(name, "file", path, content, <<>>)

NewFolder(name, path, children) == FileNode(name, "folder", path, NoContent, children)

\* path.startsWith(prefix + '/')
StartsWithDir(path, prefix) ==
    /\ Len(path) > Len(prefix)
    /\ SubSeq(path, 1, Len(prefix)) = prefix

\* path.substring(0, path.lastIndexOf('/'))
ParentDir(path) == SubSeq(path, 1, Len(path) - 1)

\* parentPath === '/' ? `/${nodeName}` : `${parentPath}/${nodeName}`
JoinPath(parentPath, nodeName) == parentPath \o <<nodeName>>

\* index of the first element satisfying a predicate given as a set of indexes
FirstIndex(S) == IF S = {} THEN 0 ELSE CHOOSE i \in S : \A j \in S : i <= j

(***************************************************************************)
(* findFileByPath                                                          *)
(***************************************************************************)
RECURSIVE FindFrom(_, _, _)
RECURSIVE findFileByPath(_, _)
findFileByPath(nodes, path) == FindFrom(nodes, path, 1)

FindFrom(nodes, path, i) ==
    IF i > Len(nodes) THEN Null
    ELSE LET node == nodes[i] IN
         IF node.path = path THEN node
         ELSE IF node.type = "folder" /\ StartsWithDir(path, node.path)
                 /\ findFileByPath(node.children, path) # Null
              THEN findFileByPath(node.children, path)
              ELSE FindFrom(nodes, path, i + 1)

(***************************************************************************)
(* addOrUpdateFileByPath                                                   *)
(***************************************************************************)
RECURSIVE UpsertIn(_, _, _, _)
UpsertIn(currentChildren, currentPath, pathParts, newContent) ==
    IF Len(pathParts) = 1
    THEN LET fileName == pathParts[1]
             fileIndex == FirstIndex({i \in 1..Len(currentChildren) :
                                        currentChildren[i].name = fileName})
         IN  IF fileIndex > 0
             THEN [currentChildren EXCEPT ![fileIndex].content = newContent]
             ELSE Append(currentChildren,
                         NewFile(fileName, currentPath \o <<fileName>>, newContent))
    ELSE LET part == pathParts[1]
             folderIndex == FirstIndex({i \in 1..Len(currentChildren) :
                                          /\ currentChildren[i].name = part
                                          /\ currentChildren[i].type = "folder"})
         IN  IF folderIndex > 0
             THEN [currentChildren EXCEPT ![folderIndex].children =
                      UpsertIn(@, currentPath \o <<part>>, Tail(pathParts), newContent)]
             ELSE Append(currentChildren,
                         NewFolder(part, currentPath \o <<part>>,
                                   UpsertIn(<<>>, currentPath \o <<part>>,
                                            Tail(pathParts), newContent)))

addOrUpdateFileByPath(nodes, path, newContent) ==
    IF path = <<>> THEN nodes ELSE UpsertIn(nodes, <<>>, path, newContent)

(***************************************************************************)
(* deleteNodeByPath                                                        *)
(***************************************************************************)
RECURSIVE deleteNodeByPath(_, _)
deleteNodeByPath(nodes, path) ==
    LET newNodes == SelectSeq(nodes, LAMBDA node : node.path # path)
    IN  [i \in 1..Len(newNodes) |->
            IF newNodes[i].type = "folder" /\ StartsWithDir(path, newNodes[i].path)
            THEN [newNodes[i] EXCEPT !.children = deleteNodeByPath(@, path)]
            ELSE newNodes[i]]

(***************************************************************************)
(* addNodeToTree: ok = FALSE stands for the thrown Error, error for its    *)
(* message ("... already exists." or "Parent directory ... not found.").   *)
(***************************************************************************)
NewNode(nodeName, type, newNodePath) ==
    IF type = "folder" THEN NewFolder(nodeName, newNodePath, <<>>)
    ELSE NewFile(nodeName, newNodePath, "")

\* parentNode.children.push(...) on the node findFileByPath returned
RECURSIVE PushChildFrom(_, _, _, _)
RECURSIVE PushChild(_, _, _)
PushChild(nodes, parentPath, child) == PushChildFrom(nodes, parentPath, child, 1)

PushChildFrom(nodes, parentPath, child, i) ==
    IF i > Len(nodes) THEN nodes
    ELSE LET node == nodes[i] IN
         IF node.path = parentPath
         THEN [nodes EXCEPT ![i].children = Append(@, child)]
         ELSE IF node.type = "folder" /\ StartsWithDir(parentPath, node.path)
                 /\ findFileByPath(node.children, parentPath) # Null
              THEN [nodes EXCEPT ![i].children = PushChild(@, parentPath, child)]
              ELSE PushChildFrom(nodes, parentPath, child, i + 1)

\* addNodeToTree without its two throws
addNodeToTreeUnchecked(nodes, parentPath, nodeName, type) ==
    LET newNodePath == JoinPath(parentPath, nodeName)
    IN  [ok |-> TRUE, error |-> "none",
         tree |-> IF parentPath = <<>>
                  THEN Append(nodes, NewNode(nodeName, type, newNodePath))
                  ELSE PushChild(nodes, parentPath, NewNode(nodeName, type, newNodePath))]

addNodeToTree(nodes, parentPath, nodeName, type) ==
    LET newNodePath == JoinPath(parentPath, nodeName)
        parentNode == findFileByPath(nodes, parentPath)
    IN  IF findFileByPath(nodes, newNodePath) # Null
        THEN [ok |-> FALSE, error |-> "exists", tree |-> nodes]
        ELSE IF parentPath = <<>>
        THEN [ok |-> TRUE, error |-> "none",
              tree |-> Append(nodes, NewNode(nodeName, type, newNodePath))]
        ELSE IF parentNode # Null /\ parentNode.type = "folder"
        THEN [ok |-> TRUE, error |-> "none",
              tree |-> PushChild(nodes, parentPath, NewNode(nodeName, type, newNodePath))]
        ELSE [ok |-> FALSE, error |-> "noParent", tree |-> nodes]

\* addFileToTree
addFileToTree(nodes, parentPath, name, content) ==
    addOrUpdateFileByPath(nodes, JoinPath(parentPath, name), content)

(***************************************************************************)
(* formatProjectStructureForAI: buildString sorts every level of the tree  *)
(* it is given in place (folders first, then by name).                     *)
(***************************************************************************)
\* a.name.localeCompare(b.name) over NodeNames
NameRank == [n \in NodeNames |-> IF n = "a" THEN 1 ELSE 2]

\* the comparator of fileNodes.sort returns <= 0
SortsBefore(a, b) ==
    IF a.type = b.type THEN NameRank[a.name] <= NameRank[b.name]
    ELSE a.type = "folder"

\* Array.prototype.sort is stable
InsertSorted(sorted, node) ==
    LET k == Cardinality({i \in 1..Len(sorted) : SortsBefore(sorted[i], node)})
    IN  SubSeq(sorted, 1, k) \o <<node>> \o SubSeq(sorted, k + 1, Len(sorted))

RECURSIVE SortLevel(_)
SortLevel(nodes) ==
    IF nodes = <<>> THEN <<>>
    ELSE InsertSorted(SortLevel(SubSeq(nodes, 1, Len(nodes) - 1)), nodes[Len(nodes)])

RECURSIVE formatProjectStructureForAI(_)
formatProjectStructureForAI(nodes) ==
    LET sorted == SortLevel(nodes)
    IN  [i \in 1..Len(sorted) |->
            IF sorted[i].type = "folder"
            THEN [sorted[i] EXCEPT !.children = formatProjectStructureForAI(@)]
            ELSE sorted[i]]

(***************************************************************************)
(* The WebContainer filesystem: every path of the model is absent, a       *)
(* directory, or a file with its content.  An fs call returns ok = FALSE   *)
(* when the runtime rejects it.                                            *)
(***************************************************************************)
AllPaths == {<<n>> : n \in NodeNames} \cup {<<n, m>> : n \in NodeNames, m \in NodeNames}

IsDirIn(f, path) == path = <<>> \/ (path \in AllPaths /\ f[path] = "dir")

\* wc.fs.writeFile(path, content)
FsWriteFile(f, path, content) ==
    IF path \in AllPaths /\ IsDirIn(f, ParentDir(path)) /\ f[path] # "dir"
    THEN [ok |-> TRUE, fs |-> [f EXCEPT ![path] = content]]
    ELSE [ok |-> FALSE, fs |-> f]

\* wc.fs.mkdir(path, { recursive: true })
FsMkdir(f, path) ==
    IF path \in AllPaths
       /\ \A k \in 1..Len(path) : f[SubSeq(path, 1, k)] \in {"absent", "dir"}
    THEN [ok |-> TRUE,
          fs |-> [q \in AllPaths |->
                    IF \E k \in 1..Len(path) : q = SubSeq(path, 1, k) THEN "dir" ELSE f[q]]]
    ELSE [ok |-> FALSE, fs |-> f]

\* wc.fs.rm(path, { recursive: true })
FsRm(f, path) ==
    IF path \in AllPaths /\ f[path] # "absent"
    THEN [ok |-> TRUE,
          fs |-> [q \in AllPaths |->
                    IF q = path \/ StartsWithDir(q, path) THEN "absent" ELSE f[q]]]
    ELSE [ok |-> FALSE, fs |-> f]

\* projectStructureToWebContainerFiles followed by wc.mount
RECURSIVE buildTree(_, _, _)
buildTree(currentNodes, parentDir, f) ==
    IF currentNodes = <<>> THEN f
    ELSE LET node == Head(currentNodes)
             p == parentDir \o <<node.name>>
             cleared == [q \in AllPaths |-> IF StartsWithDir(q, p) THEN "absent" ELSE f[q]]
         IN  IF p \notin AllPaths THEN buildTree(Tail(currentNodes), parentDir, f)
             ELSE IF node.type = "file"
             THEN buildTree(Tail(currentNodes), parentDir,
                            [cleared EXCEPT ![p] = IF node.content = NoContent THEN ""
                                                   ELSE node.content])
             ELSE buildTree(Tail(currentNodes), parentDir,
                            buildTree(node.children, p, [cleared EXCEPT ![p] = "dir"]))

projectStructureToWebContainerFiles(nodes) ==
    buildTree(nodes, <<>>, [q \in AllPaths |-> "absent"])

(***************************************************************************)
(* History: pushHistory, handleUndo and handleRedo compute their state     *)
(* updates from the history and historyIndex of the render whose closure   *)
(* calls them.                                                             *)
(***************************************************************************)
Max(a, b) == IF a > b THEN a ELSE b
Min(a, b) == IF a < b THEN a ELSE b

\* arr.slice(0, end)
JsSlice(arr, end) ==
    SubSeq(arr, 1, IF end < 0 THEN Max(Len(arr) + end, 0) ELSE Min(end, Len(arr)))

\* arr[i], undefined outside the array
JsIndex(arr, i) == IF i >= 0 /\ i < Len(arr) THEN arr[i + 1] ELSE undefined

\* pushHistory without the slice
pushHistoryKeepsRedo(h, hi, newStructure) ==
    LET newHistory == Append(h, newStructure)
    IN  [history |-> newHistory,
         historyIndex |-> Len(newHistory) - 1,
         projectStructure |-> newStructure]

pushHistory(h, hi, newStructure) ==
    LET newHistory == Append(JsSlice(h, hi + 1), newStructure)
    IN  [history |-> newHistory,
         historyIndex |-> Len(newHistory) - 1,
         projectStructure |-> newStructure]

\* the project the IDE is opened on (project.structure)
InitialStructure ==
    << NewFolder("src", <<"src">>, << NewFile("a", <<"src", "a">>, "x") >>) >>

\* the list without /src
ProtectedPathsWithoutSrc ==
    {<<"package.json">>, <<"public">>, <<"index.html">>, <<"vite.config.ts">>}

\* the list in handleRequestDelete
ProtectedPaths ==
    {<<"package.json">>, <<"src">>, <<"public">>, <<"index.html">>, <<"vite.config.ts">>}

(***************************************************************************)
(* Editor buffers.  openFiles holds nodes of the tree; two effects keep it *)
(* up to date after a render with a new projectStructure.                  *)
(***************************************************************************)
\* '/src/App.tsx', the file the IDE opens when no buffer is open
DefaultFilePath == <<"src", "a">>

\* the assistant's message before the first prompt and while a prompt is
\* being answered
Greeting == "Hello! I'm your AI code assistant. What should we build or change today?"
Thinking == "Thinking... I'm analyzing the project and your request."

\* setOpenFiles of handleOpenFile and handleResultClick, where nodes is the
\* projectStructure of the closure
OpenFile(files, nodes, path) ==
    LET file == findFileByPath(nodes, path)
    IN  IF file # Null /\ file.type = "file"
           /\ ~\E i \in 1..Len(files) : files[i].path = path
        THEN Append(files, file)
        ELSE files

\* the effect on [projectStructure]: every buffer becomes the node at its path
SyncOpenFiles(files, nodes) ==
    SelectSeq([i \in 1..Len(files) |-> findFileByPath(nodes, files[i].path)],
              LAMBDA node : node # Null)

\* the effect on [projectStructure, openFiles, handleOpenFile]
OpenDefaultFile(files, nodes) ==
    IF nodes # <<>> /\ files = <<>> THEN OpenFile(files, nodes, DefaultFilePath) ELSE files

\* openFiles once the effects of the render with tree nodes have run; a render
\* with an undefined tree throws before any effect runs
Settle(files, nodes) ==
    IF nodes = undefined THEN files
    ELSE OpenDefaultFile(SyncOpenFiles(files, nodes), nodes)

\* s.startsWith(p) on two names
StrStartsWith(s, p) == Len(s) >= Len(p) /\ SubSeq(s, 1, Len(p)) = p

\* path.startsWith(prefix) on the path strings: the segments before the
\* last one of prefix are those of path, and the last one starts the
\* segment of path at its place
PathStartsWith(path, prefix) ==
    LET n == Len(prefix)
    IN  /\ n > 0
        /\ Len(path) >= n
        /\ SubSeq(path, 1, n - 1) = SubSeq(prefix, 1, n - 1)
        /\ StrStartsWith(path[n], prefix[n])

\* tempOpenFiles.filter(f => !f.path.startsWith(node.path))
RECURSIVE CloseDeleted(_, _)
CloseDeleted(files, nodes) ==
    IF nodes = <<>> THEN files
    ELSE CloseDeleted(SelectSeq(files, LAMBDA f : ~PathStartsWith(f.path, Head(nodes))),
                      Tail(nodes))

\* activeFilePath null
NoActiveFile == <<"<null>">>

\* setActiveFilePath of handleOpenFile, where nodes is the projectStructure
\* of the closure
OpenActive(active, nodes, path) ==
    LET file == findFileByPath(nodes, path)
    IN  IF file # Null /\ file.type = "file" THEN path ELSE active

\* activeFilePath once the effects of the render with tree nodes have run:
\* the effect that opens the default file calls handleOpenFile
DefaultActive(active, files, nodes) ==
    IF OpenDefaultFile(files, nodes) # files THEN DefaultFilePath ELSE active

SettleActive(active, files, nodes) ==
    IF nodes = undefined THEN active
    ELSE DefaultActive(active, SyncOpenFiles(files, nodes), nodes)

\* tempActiveFile after the loop of handleConfirmDelete
RECURSIVE ActiveDeleted(_, _)
ActiveDeleted(active, nodes) ==
    IF nodes = <<>> THEN active
    ELSE ActiveDeleted(IF active # NoActiveFile /\ PathStartsWith(active, Head(nodes))
                       THEN NoActiveFile ELSE active,
                       Tail(nodes))

\* tempActiveFile as handleConfirmDelete hands it to setActiveFilePath
ActiveAfterDelete(active, files, nodes) ==
    LET tempOpenFiles == CloseDeleted(files, nodes)
        tempActiveFile == ActiveDeleted(active, nodes)
    IN  IF tempActiveFile = NoActiveFile /\ tempOpenFiles # <<>>
        THEN tempOpenFiles[Len(tempOpenFiles)].path
        ELSE tempActiveFile

\* setActiveFilePath of handleCloseFile
ActiveAfterClose(active, files, path) ==
    LET newOpenFiles == SelectSeq(files, LAMBDA f : f.path # path)
        closingIndex == FirstIndex({i \in 1..Len(files) : files[i].path = path}) - 1
        k == IF closingIndex - 1 > 0 THEN closingIndex - 1 ELSE 0
    IN  IF active # path THEN active
        ELSE IF newOpenFiles # <<>> THEN newOpenFiles[k + 1].path
        ELSE NoActiveFile

(***************************************************************************)
(* App: the project list, its copy in localStorage, and the effects that   *)
(* load it on mount and save it after a render.  A stored text is the      *)
(* JSON value it holds; a text that is no JSON is NotJson.                 *)
(***************************************************************************)
ProjectIds == {"p1", "p2"}

\* the value of activeProjectId with no project selected, and of getItem
\* for a key that is not stored
NullId == "<null>"

DefaultDescription ==
    "Contoh interaktif yang menunjukkan bagaimana file HTML, CSS, dan JavaScript bekerja sama"

\* a project of the list; the tree of a project is left out
Project(id, description) == [id |-> id, description |-> description]

\* the project a session without a stored list starts with
DefaultProject == Project("p1", DefaultDescription)

\* JSON.stringify(projects), and the other texts the key can hold
JsonStringify(value) == [json |-> "array", value |-> value]
NotAnArray == [json |-> "object", value |-> <<>>]
NotJson == [json |-> "invalid", value |-> <<>>]
NoItem == [json |-> "absent", value |-> <<>>]

\* the project lists an earlier session can have stored; a project stored
\* without a description has ''
StoredProjects ==
    {<<>>, <<Project("p1", "")>>, <<Project("p1", "d")>>,
     <<Project("p1", "d"), Project("p2", "")>>}

\* what the browser holds under the two keys when App mounts
StoredStates ==
    [codematic_projects : {NoItem, NotAnArray, NotJson}
                            \cup {JsonStringify(l) : l \in StoredProjects},
     codematic_active_project_id : {NullId} \cup ProjectIds]

\* the try block of the load effect up to setProjects: ok = FALSE stands
\* for the SyntaxError of JSON.parse or the TypeError of .map
LoadProjects(savedProjects) ==
    IF savedProjects = NoItem
    THEN [ok |-> TRUE, projects |-> <<DefaultProject>>]
    ELSE IF savedProjects.json = "array"
    THEN [ok |-> TRUE,
          projects |-> [i \in 1..Len(savedProjects.value) |->
                          Project(savedProjects.value[i].id,
                                  IF savedProjects.value[i].description = ""
                                  THEN DefaultDescription
                                  ELSE savedProjects.value[i].description)]]
    ELSE [ok |-> FALSE, projects |-> <<>>]

SetItem(key) == [call |-> "setItem", key |-> key]
RemoveItem(key) == [call |-> "removeItem", key |-> key]

\* the effects of the first render, in the order of their declaration
MountEffects == <<"load", "saveProjects", "saveActiveProjectId">>

(***************************************************************************)
(* State of IDEView.                                                       *)
(*   projectStructure, history, historyIndex, isLoadingAI, nodesToDelete,  *)
(*   wcStatus: the React state of the same names (nodesToDelete holds the  *)
(*   paths of its nodes, <<>> for null);                                   *)
(*   webContainer: webContainerRef.current is set;                         *)
(*   fs: the files of the WebContainer;                                    *)
(*   tasks: the handler invocations suspended at an await, each with the   *)
(*   state its closure captured when the handler was called;               *)
(*   opCount: the number of mutating handler invocations started so far;   *)
(*   lastEvent: what the last step of a mutating handler did: the handler  *)
(*   (op), how the step left it (outcome), the task that took the step     *)
(*   (slot, 0 when the handler had not awaited), the runtime calls the     *)
(*   invocation has issued (rt) and those of them that wrote or removed a  *)
(*   file (rtOk), the snapshots a push discarded (dropped);                *)
(*   script: the pushes, undos and redos called since the IDE was opened,  *)
(*   while they have the shape push* undo* redo* (SpecHistory only);       *)
(*   openFiles: the nodes open as editor buffers;                          *)
(*   activeFilePath: the path of the buffer shown, NoActiveFile for null;  *)
(*   aiMessage: the assistant's message;                                   *)
(*   searchQuery, searchResults, lastSearchRegex: the search panel's state *)
(*   of the same names;                                                    *)
(*   lineLoop: searchInNode at work on a line (SpecLines only).            *)
(* State of App, which renders the dashboard or the IDE.                   *)
(*   projects, activeProjectId, isLoading: the React state of the same     *)
(*   names;                                                                *)
(*   localStorage: the two keys of the browser's storage;                  *)
(*   appRender: the state the last render of App closed over and the       *)
(*   effects of that render that have not run yet;                         *)
(*   storageCalls: the calls of setItem and removeItem of the last step.   *)
(***************************************************************************)
VARIABLES projectStructure, history, historyIndex, isLoadingAI, nodesToDelete,
          webContainer, wcStatus, fs, tasks, opCount, lastEvent, script,
          openFiles, aiMessage, searchQuery, searchResults, lastSearchRegex, lineLoop,
          activeFilePath, projects, activeProjectId, isLoading, localStorage, appRender, storageCalls

vars == <<projectStructure, history, historyIndex, isLoadingAI, nodesToDelete,
          webContainer, wcStatus, fs, tasks, opCount, lastEvent, script,
          openFiles, aiMessage, searchQuery, searchResults, lastSearchRegex, lineLoop,
          activeFilePath, projects, activeProjectId, isLoading, localStorage, appRender, storageCalls>>

\* the state of App
appVars == <<projects, activeProjectId, isLoading, localStorage, appRender, storageCalls>>

\* the state of IDEView
ideVars == <<projectStructure, history, historyIndex, isLoadingAI, nodesToDelete,
             webContainer, wcStatus, fs, tasks, opCount, lastEvent, script,
             openFiles, aiMessage, searchQuery, searchResults, lastSearchRegex, lineLoop,
             activeFilePath>>

\* the state of the search panel, and of searchInNode at work on a line
searchVars == <<searchQuery, searchResults, lastSearchRegex, lineLoop>>

Idle == [kind |-> "idle"]

\* no line is being searched
NoLoop == [pc |-> "none", line |-> <<>>, source |-> <<>>, lastIndex |-> 0,
           lineMatches |-> <<>>]
Broken == [shape |-> "other"]

Slots == 1..MaxTasks
FreeSlots == {s \in Slots : tasks[s] = Idle}
FreeSlot == CHOOSE s \in FreeSlots : \A r \in FreeSlots : s <= r

\* what the closures of one render see
Closure ==
    [projectStructure |-> projectStructure, history |-> history,
     historyIndex |-> historyIndex, openFiles |-> openFiles]

\* with projectStructure undefined the next render throws in FileTree
\* (nodes.map) and, there being no error boundary, React unmounts the IDE
Mounted == projectStructure # undefined

\* the IDE just opened on a project with the tree structure
IDEOpenedOn(structure) ==
    /\ projectStructure = structure
    /\ history = <<structure>>
    /\ historyIndex = 0
    /\ isLoadingAI = FALSE
    /\ nodesToDelete = <<>>
    /\ webContainer = FALSE
    /\ wcStatus = "booting"
    /\ fs = [q \in AllPaths |-> "absent"]
    /\ tasks = [s \in Slots |-> Idle]
    /\ opCount = 0
    /\ lastEvent = [op |-> "init", outcome |-> "none"]
    /\ script = [shape |-> "pur", p |-> 0, u |-> 0, r |-> 0, last |-> structure]
    /\ openFiles = Settle(<<>>, structure)
    /\ aiMessage = Greeting
    /\ searchQuery = Null
    /\ searchResults = <<>>
    /\ lastSearchRegex = Null
    /\ lineLoop = NoLoop
    /\ activeFilePath = SettleActive(NoActiveFile, <<>>, structure)

InitIDE == IDEOpenedOn(InitialStructure)

\* App in a first session, its default project open
FirstSession ==
    /\ projects = <<DefaultProject>>
    /\ activeProjectId = DefaultProject.id
    /\ isLoading = FALSE
    /\ localStorage = [codematic_projects |-> JsonStringify(<<DefaultProject>>),
                       codematic_active_project_id |-> DefaultProject.id]
    /\ appRender = [projects |-> <<DefaultProject>>, activeProjectId |-> DefaultProject.id,
                    isLoading |-> FALSE, effects |-> <<>>]
    /\ storageCalls = <<>>

\* the IDE open on the default project of a first session
Init == InitIDE /\ FirstSession

\* pushHistory reading the live history instead of the closure's
PushLive(cl, newStructure) ==
    LET n == pushHistory(history, historyIndex, newStructure)
    IN  /\ history' = n.history
        /\ historyIndex' = n.historyIndex
        /\ projectStructure' = n.projectStructure

\* the three setState calls of pushHistory, from the closure cl
Push(cl, newStructure) ==
    LET n == pushHistory(cl.history, cl.historyIndex, newStructure)
    IN  /\ history' = n.history
        /\ historyIndex' = n.historyIndex
        /\ projectStructure' = n.projectStructure

\* the snapshots after the cursor of a closure, which a push from it discards
Dropped(cl) == Len(cl.history) - (cl.historyIndex + 1)

(***************************************************************************)
(* The boot effect: WebContainer.boot(), mount of the project's files,     *)
(* and the server-ready event.                                             *)
(***************************************************************************)
WcBoot ==
    /\ Mounted
    /\ ~webContainer
    /\ webContainer' = TRUE
    /\ fs' = projectStructureToWebContainerFiles(InitialStructure)
    /\ UNCHANGED <<projectStructure, history, historyIndex, isLoadingAI, nodesToDelete,
                   wcStatus, tasks, opCount, lastEvent, script,
                   openFiles, activeFilePath, aiMessage, searchVars, appVars>>

WcServerReady ==
    /\ Mounted
    /\ webContainer
    /\ wcStatus = "booting"
    /\ wcStatus' = "ready"
    /\ UNCHANGED <<projectStructure, history, historyIndex, isLoadingAI, nodesToDelete,
                   webContainer, appVars, fs, tasks, opCount, lastEvent, script,
                   openFiles, activeFilePath, aiMessage, searchVars>>

(***************************************************************************)
(* handleUndo, handleRedo                                                  *)
(***************************************************************************)
Undo ==
    IF historyIndex <= 0
    THEN UNCHANGED <<historyIndex, projectStructure>>
    ELSE LET newIndex == historyIndex - 1
         IN  /\ historyIndex' = newIndex
             /\ projectStructure' = JsIndex(history, newIndex)

Redo ==
    IF historyIndex >= Len(history) - 1
    THEN UNCHANGED <<historyIndex, projectStructure>>
    ELSE LET newIndex == historyIndex - 1
         IN  /\ historyIndex' = newIndex
             /\ projectStructure' = JsIndex(history, newIndex)

handleUndo ==
    /\ Mounted
    /\ Undo
    /\ openFiles' = Settle(openFiles, projectStructure')
    /\ activeFilePath' = SettleActive(activeFilePath, openFiles, projectStructure')
    /\ UNCHANGED <<history, isLoadingAI, nodesToDelete, webContainer, appVars, wcStatus, fs,
                   tasks, opCount, lastEvent, script, aiMessage, searchVars>>

handleRedo ==
    /\ Mounted
    /\ Redo
    /\ openFiles' = Settle(openFiles, projectStructure')
    /\ activeFilePath' = SettleActive(activeFilePath, openFiles, projectStructure')
    /\ UNCHANGED <<history, isLoadingAI, nodesToDelete, webContainer, appVars, wcStatus, fs,
                   tasks, opCount, lastEvent, script, aiMessage, searchVars>>

(***************************************************************************)
(* handleFileContentChange: the editor's onChange for a file of the tree.  *)
(* With the runtime ready the handler awaits writeFile before it touches   *)
(* the tree; the call reaches the runtime when it is issued.               *)
(***************************************************************************)
FilePaths(nodes) ==
    {q \in AllPaths : findFileByPath(nodes, q) # Null
                      /\ findFileByPath(nodes, q).type = "file"}

handleFileContentChange(path, content) ==
    /\ Mounted
    /\ opCount < MaxOps
    /\ ~isLoadingAI
    /\ opCount' = opCount + 1
    /\ IF webContainer /\ wcStatus = "ready"
       THEN /\ FreeSlots # {}
            /\ LET w == FsWriteFile(fs, path, content)
               IN  /\ fs' = w.fs
                   /\ tasks' = [tasks EXCEPT ![FreeSlot] =
                                   [kind |-> "edit", pc |-> "writeFile", ok |-> w.ok,
                                    cl |-> Closure, path |-> path, content |-> content]]
            /\ lastEvent' = [op |-> "edit", outcome |-> "await"]
            /\ UNCHANGED <<projectStructure, history, historyIndex, openFiles, activeFilePath>>
       ELSE /\ Push(Closure, addOrUpdateFileByPath(projectStructure, path, content))
            /\ openFiles' = Settle(openFiles, projectStructure')
            /\ activeFilePath' = SettleActive(activeFilePath, openFiles, projectStructure')
            /\ lastEvent' = [op |-> "edit", outcome |-> "commit", slot |-> 0, rt |-> 0,
                             dropped |-> Dropped(Closure)]
            /\ UNCHANGED <<fs, tasks>>
    /\ UNCHANGED <<isLoadingAI, nodesToDelete, webContainer, appVars, wcStatus, script, aiMessage,
                   searchVars>>

\* the continuation after await wc.fs.writeFile; a rejection leaves the handler
FileContentChangeResume(s) ==
    /\ Mounted
    /\ tasks[s].kind = "edit"
    /\ LET t == tasks[s]
           newStructure == addOrUpdateFileByPath(t.cl.projectStructure, t.path, t.content)
       IN  IF t.ok
           THEN /\ Push(t.cl, newStructure)
                /\ openFiles' = Settle(openFiles, newStructure)
                /\ activeFilePath' = SettleActive(activeFilePath, openFiles, newStructure)
                /\ lastEvent' = [op |-> "edit", outcome |-> "commit", slot |-> s, rt |-> 1,
                                 dropped |-> Dropped(t.cl)]
           ELSE /\ lastEvent' = [op |-> "edit", outcome |-> "aborted", slot |-> s, rt |-> 1]
                /\ UNCHANGED <<projectStructure, history, historyIndex, openFiles, activeFilePath>>
    /\ tasks' = [tasks EXCEPT ![s] = Idle]
    /\ UNCHANGED <<isLoadingAI, nodesToDelete, webContainer, appVars, wcStatus, fs, opCount, script, aiMessage,
                   searchVars>>

(***************************************************************************)
(* handleAddNode: mkdir or writeFile in the runtime first, then            *)
(* addNodeToTree and pushHistory; every error ends in the catch.           *)
(***************************************************************************)
ParentPaths == {<<>>} \cup {<<n>> : n \in NodeNames}

\* the names typed into the new-node prompt
NewNodeNames == {"a"}

\* the part of handleAddNode after the runtime call
AddNodeFinish(cl, parentPath, nodeName, type, s, rt) ==
    LET r == addNodeToTree(cl.projectStructure, parentPath, nodeName, type)
    IN  IF r.ok
        THEN /\ Push(cl, r.tree)
             /\ openFiles' =
                   Settle(IF type = "file"
                          THEN OpenFile(openFiles, cl.projectStructure,
                                        JoinPath(parentPath, nodeName))
                          ELSE openFiles, r.tree)
             /\ activeFilePath' =
                   SettleActive(IF type = "file"
                                THEN OpenActive(activeFilePath, cl.projectStructure,
                                                JoinPath(parentPath, nodeName))
                                ELSE activeFilePath,
                                IF type = "file"
                                THEN OpenFile(openFiles, cl.projectStructure,
                                              JoinPath(parentPath, nodeName))
                                ELSE openFiles, r.tree)
             /\ lastEvent' = [op |-> "addNode", outcome |-> "commit", slot |-> s, rt |-> rt,
                              dropped |-> Dropped(cl)]
        ELSE /\ lastEvent' = [op |-> "addNode", outcome |-> "rejected", slot |-> s,
                              rt |-> rt, error |-> r.error]
             /\ UNCHANGED <<projectStructure, history, historyIndex, openFiles, activeFilePath>>

handleAddNode(parentPath, nodeName, type) ==
    /\ Mounted
    /\ opCount < MaxOps
    /\ opCount' = opCount + 1
    /\ IF webContainer
       THEN /\ FreeSlots # {}
            /\ LET newNodePath == JoinPath(parentPath, nodeName)
                   w == IF type = "folder" THEN FsMkdir(fs, newNodePath)
                        ELSE FsWriteFile(fs, newNodePath, "")
               IN  /\ fs' = w.fs
                   /\ tasks' = [tasks EXCEPT ![FreeSlot] =
                                   [kind |-> "add", pc |-> "fs", ok |-> w.ok, cl |-> Closure,
                                    parentPath |-> parentPath, nodeName |-> nodeName,
                                    type |-> type]]
            /\ lastEvent' = [op |-> "addNode", outcome |-> "await"]
            /\ UNCHANGED <<projectStructure, history, historyIndex, openFiles, activeFilePath>>
       ELSE /\ AddNodeFinish(Closure, parentPath, nodeName, type, 0, 0)
            /\ UNCHANGED <<fs, tasks>>
    /\ UNCHANGED <<isLoadingAI, nodesToDelete, webContainer, appVars, wcStatus, script, aiMessage,
                   searchVars>>

AddNodeResume(s) ==
    /\ Mounted
    /\ tasks[s].kind = "add"
    /\ LET t == tasks[s]
       IN  IF t.ok
           THEN AddNodeFinish(t.cl, t.parentPath, t.nodeName, t.type, s, 1)
           ELSE /\ lastEvent' = [op |-> "addNode", outcome |-> "aborted", slot |-> s,
                                 rt |-> 1]
                /\ UNCHANGED <<projectStructure, history, historyIndex, openFiles, activeFilePath>>
    /\ tasks' = [tasks EXCEPT ![s] = Idle]
    /\ UNCHANGED <<isLoadingAI, nodesToDelete, webContainer, appVars, wcStatus, fs, opCount, script, aiMessage,
                   searchVars>>

(***************************************************************************)
(* handleRequestDelete, handleCancelDelete, handleConfirmDelete            *)
(***************************************************************************)
\* the paths of the nodes of a tree
NodePaths(nodes) == {q \in AllPaths : findFileByPath(nodes, q) # Null}

\* selectedNodePaths: up to MaxSel distinct nodes picked in the file tree
Selections(nodes) ==
    {sel \in UNION {[1..n -> NodePaths(nodes)] : n \in 1..MaxSel} :
        \A i, j \in 1..Len(sel) : i # j => sel[i] # sel[j]}

handleRequestDelete(paths) ==
    /\ Mounted
    /\ opCount < MaxOps
    /\ opCount' = opCount + 1
    /\ LET nodes == SelectSeq(paths, LAMBDA q : findFileByPath(projectStructure, q) # Null)
           protectedItem == FirstIndex({i \in 1..Len(nodes) : nodes[i] \in ProtectedPaths})
       IN  IF nodes = <<>>
           THEN /\ lastEvent' = [op |-> "requestDelete", outcome |-> "ignored"]
                /\ UNCHANGED nodesToDelete
           ELSE IF protectedItem # 0
           THEN /\ lastEvent' = [op |-> "requestDelete", outcome |-> "rejected",
                                 protectedItem |-> nodes[protectedItem]]
                /\ UNCHANGED nodesToDelete
           ELSE /\ lastEvent' = [op |-> "requestDelete", outcome |-> "confirming"]
                /\ nodesToDelete' = nodes
    /\ UNCHANGED <<projectStructure, history, historyIndex, isLoadingAI, webContainer, appVars,
                   wcStatus, fs, tasks, script, openFiles, activeFilePath, aiMessage, searchVars>>

handleCancelDelete ==
    /\ Mounted
    /\ nodesToDelete # <<>>
    /\ nodesToDelete' = <<>>
    /\ UNCHANGED <<projectStructure, history, historyIndex, isLoadingAI, webContainer, appVars,
                   wcStatus, fs, tasks, opCount, lastEvent, script,
                   openFiles, activeFilePath, aiMessage, searchVars>>

RECURSIVE DeleteNodes(_, _)
DeleteNodes(tempStructure, nodes) ==
    IF nodes = <<>> THEN tempStructure
    ELSE DeleteNodes(deleteNodeByPath(tempStructure, Head(nodes)), Tail(nodes))

handleConfirmDelete ==
    /\ Mounted
    /\ opCount < MaxOps
    /\ nodesToDelete # <<>>
    /\ opCount' = opCount + 1
    /\ IF webContainer
       THEN /\ FreeSlots # {}
            /\ LET w == FsRm(fs, nodesToDelete[1])
               IN  /\ fs' = w.fs
                   /\ tasks' = [tasks EXCEPT ![FreeSlot] =
                                   [kind |-> "delete", pc |-> "rm", ok |-> w.ok,
                                    cl |-> Closure, nodes |-> nodesToDelete, i |-> 1,
                                    tempStructure |-> projectStructure,
                                    activeFilePath |-> activeFilePath]]
            /\ lastEvent' = [op |-> "delete", outcome |-> "await"]
            /\ UNCHANGED <<projectStructure, history, historyIndex, nodesToDelete,
                           openFiles, activeFilePath>>
       ELSE /\ Push(Closure, DeleteNodes(projectStructure, nodesToDelete))
            /\ openFiles' = Settle(CloseDeleted(openFiles, nodesToDelete),
                                   projectStructure')
            /\ activeFilePath' =
                  SettleActive(ActiveAfterDelete(activeFilePath, openFiles, nodesToDelete),
                               CloseDeleted(openFiles, nodesToDelete), projectStructure')
            /\ nodesToDelete' = <<>>
            /\ lastEvent' = [op |-> "delete", outcome |-> "commit", slot |-> 0, rt |-> 0,
                             dropped |-> Dropped(Closure)]
            /\ UNCHANGED <<fs, tasks>>
    /\ UNCHANGED <<isLoadingAI, webContainer, appVars, wcStatus, script, aiMessage,
                   searchVars>>

\* the continuation after await wc.fs.rm of node i; a rejection leaves the handler
ConfirmDeleteResume(s) ==
    /\ Mounted
    /\ tasks[s].kind = "delete"
    /\ LET t == tasks[s]
           tempStructure == deleteNodeByPath(t.tempStructure, t.nodes[t.i])
       IN  IF ~t.ok
           THEN /\ lastEvent' = [op |-> "delete", outcome |-> "aborted", slot |-> s,
                                 rt |-> t.i]
                /\ tasks' = [tasks EXCEPT ![s] = Idle]
                /\ UNCHANGED <<projectStructure, history, historyIndex, nodesToDelete, fs,
                               openFiles, activeFilePath>>
           ELSE IF t.i < Len(t.nodes)
           THEN LET w == FsRm(fs, t.nodes[t.i + 1])
                IN  /\ fs' = w.fs
                    /\ tasks' = [tasks EXCEPT ![s] =
                                    [t EXCEPT !.ok = w.ok, !.i = @ + 1,
                                              !.tempStructure = tempStructure]]
                    /\ lastEvent' = [op |-> "delete", outcome |-> "await"]
                    /\ UNCHANGED <<projectStructure, history, historyIndex, nodesToDelete,
                                   openFiles, activeFilePath>>
           ELSE /\ Push(t.cl, tempStructure)
                /\ openFiles' = Settle(CloseDeleted(t.cl.openFiles, t.nodes), tempStructure)
                /\ activeFilePath' =
                      SettleActive(ActiveAfterDelete(t.activeFilePath, t.cl.openFiles,
                                                     t.nodes),
                                   CloseDeleted(t.cl.openFiles, t.nodes), tempStructure)
                /\ nodesToDelete' = <<>>
                /\ tasks' = [tasks EXCEPT ![s] = Idle]
                /\ lastEvent' = [op |-> "delete", outcome |-> "commit", slot |-> s,
                                 rt |-> t.i, dropped |-> Dropped(t.cl)]
                /\ UNCHANGED fs
    /\ UNCHANGED <<isLoadingAI, webContainer, appVars, wcStatus, opCount, script, aiMessage,
                   searchVars>>

(***************************************************************************)
(* handleSendPrompt and applyAiChanges.                                    *)
(* generateCodeFromPrompt formats the tree it is given, which sorts that   *)
(* tree object in place: every holder of the same tree sees it sorted.     *)
(* Identity of tree objects is followed at the level of whole trees.       *)
(***************************************************************************)
AiPaths == {<<"src">>, <<"src", "a">>}

\* the AI rewrites a file with content "y"
AiFiles == [path : AiPaths, content : {"y"}]

\* The text of a response is the sequence of its pieces: a <summary> tag, an
\* <update> tag, a <delete> tag, other markup (it starts with '<'), or plain
\* text.
SummaryTag == [tag |-> "summary", body |-> "summary of the changes"]
UpdateTag(f) == [tag |-> "update", file |-> f.path, body |-> f.content]
DeleteTag(path) == [tag |-> "delete", file |-> path]
OtherMarkup == [tag |-> "other", body |-> "<p>no tags</p>"]
PlainText == [tag |-> "text", body |-> "plain answer"]

\* a text in the format asked for: the summary, at most one update and at
\* most one deletion
FormattedTexts ==
    {<<SummaryTag>> \o u \o d : u \in {<<>>} \cup {<<UpdateTag(f)>> : f \in AiFiles},
                                d \in {<<>>} \cup {<<DeleteTag(q)>> : q \in AiPaths}}

NoSummary == "No summary provided."
EmptyResponse == "The AI returned an empty response. Please try again."
\* the message of the error the call threw is "request failed"
CallFailed == "An error occurred while communicating with the AI. Error: request failed"

parseAiResponse(responseText) ==
    LET summaryMatch == SelectSeq(responseText, LAMBDA m : m.tag = "summary")
        updateMatches == SelectSeq(responseText, LAMBDA m : m.tag = "update")
        deleteMatches == SelectSeq(responseText, LAMBDA m : m.tag = "delete")
        filesToUpdate == [i \in 1..Len(updateMatches) |->
                            [path |-> updateMatches[i].file,
                             content |-> updateMatches[i].body]]
        filesToDelete == [i \in 1..Len(deleteMatches) |-> deleteMatches[i].file]
        summary == IF summaryMatch # <<>> THEN summaryMatch[1].body ELSE NoSummary
    IN  IF filesToUpdate = <<>> /\ filesToDelete = <<>> /\ summaryMatch = <<>>
           /\ responseText # <<>> /\ responseText[1].tag = "text"
        THEN [summary |-> responseText[1].body, filesToUpdate |-> filesToUpdate,
              filesToDelete |-> filesToDelete]
        ELSE [summary |-> summary, filesToUpdate |-> filesToUpdate,
              filesToDelete |-> filesToDelete]

\* what ai.models.generateContent gives: a response with its text, or an
\* exception
GenerateContent(text) == [throws |-> FALSE, text |-> text]
Throws == [throws |-> TRUE, text |-> <<>>]
AiReplies ==
    {GenerateContent(text) : text \in FormattedTexts \cup {<<OtherMarkup>>, <<PlainText>>, <<>>}}
        \cup {Throws}

\* the result of generateCodeFromPrompt (with an API key configured); an
\* absent filesToUpdate or filesToDelete is the empty list
generateCodeFromPrompt(reply) ==
    IF reply.throws
    THEN [summary |-> CallFailed, filesToUpdate |-> <<>>, filesToDelete |-> <<>>]
    ELSE IF reply.text = <<>>
    THEN [summary |-> EmptyResponse, filesToUpdate |-> <<>>, filesToDelete |-> <<>>]
    ELSE parseAiResponse(reply.text)

\* the responses to texts in the format asked for
AiResponses == {generateCodeFromPrompt(GenerateContent(text)) : text \in FormattedTexts}

\* the responses to every reply
AiResults == {generateCodeFromPrompt(reply) : reply \in AiReplies}

\* response.filesToUpdate.forEach(file => handleOpenFile(file.path))
RECURSIVE OpenUpdated(_, _, _)
OpenUpdated(files, nodes, filesToUpdate) ==
    IF filesToUpdate = <<>> THEN files
    ELSE OpenUpdated(OpenFile(files, nodes, Head(filesToUpdate).path), nodes,
                     Tail(filesToUpdate))

\* the setActiveFilePath calls of the same handleOpenFile calls
RECURSIVE OpenUpdatedActive(_, _, _)
OpenUpdatedActive(active, nodes, filesToUpdate) ==
    IF filesToUpdate = <<>> THEN active
    ELSE OpenUpdatedActive(OpenActive(active, nodes, Head(filesToUpdate).path), nodes,
                           Tail(filesToUpdate))

SortedAlias(x, live, sorted) == IF x = live THEN sorted ELSE x

SortedClosure(cl, live, sorted) ==
    [projectStructure |-> SortedAlias(cl.projectStructure, live, sorted),
     history |-> [i \in 1..Len(cl.history) |-> SortedAlias(cl.history[i], live, sorted)],
     historyIndex |-> cl.historyIndex,
     openFiles |-> IF cl.projectStructure = live THEN SyncOpenFiles(cl.openFiles, sorted)
                   ELSE cl.openFiles]

SortedTask(t, live, sorted) ==
    IF t.kind = "idle" THEN t
    ELSE IF t.kind = "delete"
    THEN [t EXCEPT !.cl = SortedClosure(@, live, sorted),
                   !.tempStructure = SortedAlias(@, live, sorted)]
    ELSE [t EXCEPT !.cl = SortedClosure(@, live, sorted)]

\* the prompt typed into the assistant panel, and those handleRenameNode and
\* handleMoveNode build
ChatPrompt == [kind |-> "chat"]
RenamePrompt(path, newName) == [kind |-> "rename", path |-> path, newName |-> newName]
MovePrompt(sourcePath, targetParentPath) ==
    [kind |-> "move", sourcePath |-> sourcePath, targetParentPath |-> targetParentPath]

handleSendPrompt(prompt) ==
    /\ Mounted
    /\ opCount < MaxOps
    /\ ~isLoadingAI
    /\ FreeSlots # {}
    /\ opCount' = opCount + 1
    /\ isLoadingAI' = TRUE
    /\ aiMessage' = Thinking
    /\ LET sorted == formatProjectStructureForAI(projectStructure)
           cl == SortedClosure(Closure, projectStructure, sorted)
       IN  /\ projectStructure' = cl.projectStructure
           /\ history' = cl.history
           /\ openFiles' = SyncOpenFiles(openFiles, sorted)
           /\ UNCHANGED activeFilePath
           /\ tasks' = [s \in Slots |->
                          IF s = FreeSlot
                          THEN [kind |-> "ai", pc |-> "generate", ok |-> TRUE, cl |-> cl,
                                dels |-> <<>>, upds |-> <<>>,
                                finalStructure |-> cl.projectStructure,
                                rt |-> 0, rtOk |-> 0,
                                response |-> Null]
                          ELSE SortedTask(tasks[s], projectStructure, sorted)]
    /\ lastEvent' = [op |-> "ai", outcome |-> "sent", prompt |-> prompt]
    /\ UNCHANGED <<historyIndex, nodesToDelete, webContainer, appVars, wcStatus, fs, script,
                   searchVars>>

\* applyAiChanges from the head of its loops up to the next await
RECURSIVE AiRun(_, _)
AiRun(t, f) ==
    IF t.dels # <<>>
    THEN LET file == Head(t.dels)
             t1 == [t EXCEPT !.finalStructure = deleteNodeByPath(@, file),
                             !.dels = Tail(@)]
             r == FsRm(f, file)
         IN  IF webContainer
             THEN [t |-> [t1 EXCEPT !.pc = "rm", !.ok = r.ok, !.rt = @ + 1,
                                    !.rtOk = IF r.ok THEN @ + 1 ELSE @],
                   fs |-> r.fs, done |-> FALSE]
             ELSE AiRun(t1, f)
    ELSE IF t.upds # <<>>
    THEN LET fileToUpdate == Head(t.upds)
             parentDir == ParentDir(fileToUpdate.path)
             m == FsMkdir(f, parentDir)
             w == FsWriteFile(f, fileToUpdate.path, fileToUpdate.content)
         IN  IF webContainer
             THEN IF parentDir # <<>>
                  THEN [t |-> [t EXCEPT !.pc = "mkdir", !.ok = m.ok, !.rt = @ + 1],
                        fs |-> m.fs, done |-> FALSE]
                  ELSE [t |-> [t EXCEPT !.pc = "writeFile", !.ok = w.ok, !.rt = @ + 1,
                                        !.rtOk = IF w.ok THEN @ + 1 ELSE @],
                        fs |-> w.fs, done |-> FALSE]
             ELSE AiRun([t EXCEPT !.finalStructure =
                                     addOrUpdateFileByPath(@, fileToUpdate.path,
                                                           fileToUpdate.content),
                                  !.upds = Tail(@)], f)
    ELSE [t |-> t, fs |-> f, done |-> TRUE]

\* the nodes of the live tree that the closure of task t does not hold and
\* that are nowhere once the batch of t is pushed: neither in its final
\* tree nor in a snapshot of the history it leaves
LostNodes(t) ==
    LET after == pushHistory(t.cl.history, t.cl.historyIndex, t.finalStructure).history
    IN  {q \in NodePaths(projectStructure) \ NodePaths(t.cl.projectStructure) :
            \A i \in 1..Len(after) : findFileByPath(after[i], q) = Null}

AiEvent(outcome, t, s) ==
    [op |-> "ai", outcome |-> outcome, slot |-> s, rt |-> t.rt, rtOk |-> t.rtOk,
     dropped |-> Dropped(t.cl),
     lost |-> IF outcome = "commit" /\ Mounted THEN LostNodes(t) ELSE {}]

\* the state updates once AiRun has run task s up to r
AiProceed(s, r) ==
    IF r.done
    THEN /\ Push(r.t.cl, r.t.finalStructure)
         /\ openFiles' = Settle(OpenUpdated(openFiles, r.t.cl.projectStructure,
                                            r.t.response.filesToUpdate),
                                r.t.finalStructure)
         /\ activeFilePath' =
               SettleActive(OpenUpdatedActive(activeFilePath, r.t.cl.projectStructure,
                                              r.t.response.filesToUpdate),
                            OpenUpdated(openFiles, r.t.cl.projectStructure,
                                        r.t.response.filesToUpdate),
                            r.t.finalStructure)
         /\ isLoadingAI' = FALSE
         /\ tasks' = [tasks EXCEPT ![s] = Idle]
         /\ lastEvent' = AiEvent("commit", r.t, s)
         /\ fs' = r.fs
    ELSE /\ tasks' = [tasks EXCEPT ![s] = r.t]
         /\ fs' = r.fs
         /\ lastEvent' = [op |-> "ai", outcome |-> "await"]
         /\ UNCHANGED <<projectStructure, history, historyIndex, isLoadingAI, openFiles, activeFilePath>>

\* AiRespond with applyAiChanges going on when the batch is empty
AiRespondWithoutReturn(s, response) ==
    /\ Mounted
    /\ tasks[s].kind = "ai"
    /\ tasks[s].pc = "generate"
    /\ AiProceed(s, AiRun([tasks[s] EXCEPT !.dels = response.filesToDelete,
                                          !.upds = response.filesToUpdate,
                                          !.response = response], fs))
    /\ aiMessage' = response.summary
    /\ UNCHANGED <<nodesToDelete, webContainer, appVars, wcStatus, opCount, script, searchVars>>

\* generateCodeFromPrompt resolves; the summary is streamed word by word (no
\* other state of this model changes meanwhile) and applyAiChanges starts
AiRespond(s, response) ==
    /\ Mounted
    /\ tasks[s].kind = "ai"
    /\ tasks[s].pc = "generate"
    /\ LET t == [tasks[s] EXCEPT !.dels = response.filesToDelete,
                                 !.upds = response.filesToUpdate,
                                 !.response = response]
       IN  IF response.filesToDelete = <<>> /\ response.filesToUpdate = <<>>
           THEN /\ isLoadingAI' = FALSE
                /\ tasks' = [tasks EXCEPT ![s] = Idle]
                /\ lastEvent' = [op |-> "ai", outcome |-> "informational", slot |-> s]
                /\ UNCHANGED <<projectStructure, history, historyIndex, fs, openFiles, activeFilePath>>
           ELSE AiProceed(s, AiRun(t, fs))
    /\ aiMessage' = response.summary
    /\ UNCHANGED <<nodesToDelete, webContainer, appVars, wcStatus, opCount, script, searchVars>>

\* the continuation after an awaited rm, mkdir or writeFile of applyAiChanges;
\* a rejected rm is caught, a rejected mkdir or writeFile leaves handleSendPrompt
AiResume(s) ==
    /\ Mounted
    /\ tasks[s].kind = "ai"
    /\ tasks[s].pc \in {"rm", "mkdir", "writeFile"}
    /\ LET t == tasks[s]
           fileToUpdate == Head(t.upds)
           w == FsWriteFile(fs, fileToUpdate.path, fileToUpdate.content)
       IN  IF t.pc = "rm"
           THEN AiProceed(s, AiRun(t, fs))
           ELSE IF ~t.ok
           THEN /\ tasks' = [tasks EXCEPT ![s] = Idle]
                /\ lastEvent' = AiEvent("aborted", t, s)
                /\ UNCHANGED <<projectStructure, history, historyIndex, isLoadingAI, fs,
                               openFiles, activeFilePath>>
           ELSE IF t.pc = "mkdir"
           THEN AiProceed(s, [t |-> [t EXCEPT !.pc = "writeFile", !.ok = w.ok, !.rt = @ + 1,
                                              !.rtOk = IF w.ok THEN @ + 1 ELSE @],
                              fs |-> w.fs, done |-> FALSE])
           ELSE AiProceed(s, AiRun([t EXCEPT !.finalStructure =
                                               addOrUpdateFileByPath(@, fileToUpdate.path,
                                                                     fileToUpdate.content),
                                            !.upds = Tail(@)], fs))
    /\ UNCHANGED <<nodesToDelete, webContainer, appVars, wcStatus, opCount, script, aiMessage,
                   searchVars>>

(***************************************************************************)
(* The specification of the IDE.                                           *)
(***************************************************************************)
Next ==
    \/ WcBoot
    \/ WcServerReady
    \/ handleUndo
    \/ handleRedo
    \/ /\ Mounted
       /\ \E path \in FilePaths(projectStructure), content \in Contents :
             handleFileContentChange(path, content)
    \/ \E s \in Slots : FileContentChangeResume(s)
    \/ \E parentPath \in ParentPaths, nodeName \in NewNodeNames, type \in NodeTypes :
          handleAddNode(parentPath, nodeName, type)
    \/ \E s \in Slots : AddNodeResume(s)
    \/ /\ Mounted
       /\ \E paths \in Selections(projectStructure) : handleRequestDelete(paths)
    \/ handleCancelDelete
    \/ handleConfirmDelete
    \/ \E s \in Slots : ConfirmDeleteResume(s)
    \/ handleSendPrompt(ChatPrompt)
    \/ \E s \in Slots, response \in AiResponses : AiRespond(s, response)
    \/ \E s \in Slots : AiResume(s)

Spec == Init /\ [][Next]_vars

(***************************************************************************)
(* The history alone: pushHistory, handleUndo and handleRedo called in any *)
(* order on trees of HistoryTrees, with the script of the calls.           *)
(***************************************************************************)
HistoryTrees ==
    {addOrUpdateFileByPath(InitialStructure, <<"src", "a">>, c) : c \in Contents}
        \cup {addNodeToTree(InitialStructure, <<>>, "a", type).tree : type \in NodeTypes}

ScriptPush(t) ==
    IF script # Broken /\ script.u = 0 /\ script.r = 0
    THEN [script EXCEPT !.p = @ + 1, !.last = t] ELSE Broken

ScriptUndo ==
    IF script # Broken /\ script.r = 0 /\ script.u < script.p
    THEN [script EXCEPT !.u = @ + 1] ELSE Broken

ScriptRedo ==
    IF script # Broken /\ script.u = script.p /\ script.r < script.p
    THEN [script EXCEPT !.r = @ + 1] ELSE Broken

HistoryPush(newStructure) ==
    /\ Mounted
    /\ Len(history) <= MaxPushes
    /\ Push(Closure, newStructure)
    /\ script' = ScriptPush(newStructure)
    /\ openFiles' = Settle(openFiles, newStructure)
    /\ activeFilePath' = SettleActive(activeFilePath, openFiles, newStructure)
    /\ UNCHANGED <<isLoadingAI, nodesToDelete, webContainer, appVars, wcStatus, fs, tasks, opCount,
                   lastEvent, aiMessage, searchVars>>

HistoryUndo ==
    /\ Mounted
    /\ Undo
    /\ script' = ScriptUndo
    /\ openFiles' = Settle(openFiles, projectStructure')
    /\ activeFilePath' = SettleActive(activeFilePath, openFiles, projectStructure')
    /\ UNCHANGED <<history, isLoadingAI, nodesToDelete, webContainer, appVars, wcStatus, fs,
                   tasks, opCount, lastEvent, aiMessage, searchVars>>

HistoryRedo ==
    /\ Mounted
    /\ Redo
    /\ script' = ScriptRedo
    /\ openFiles' = Settle(openFiles, projectStructure')
    /\ activeFilePath' = SettleActive(activeFilePath, openFiles, projectStructure')
    /\ UNCHANGED <<history, isLoadingAI, nodesToDelete, webContainer, appVars, wcStatus, fs,
                   tasks, opCount, lastEvent, aiMessage, searchVars>>

NextHistory ==
    \/ \E newStructure \in HistoryTrees : HistoryPush(newStructure)
    \/ HistoryUndo
    \/ HistoryRedo

SpecHistory == Init /\ [][NextHistory]_vars

(***************************************************************************)
(* The assistant: prompts typed by the user, renames and moves (which are  *)
(* handed to the AI as prompts), and every reply the call of the model can *)
(* give.  A move starts in handleMoveNode, in a drop on a node of the file *)
(* tree or in a drop on the tree's background.                             *)
(***************************************************************************)
\* a handler that returns after a toast
Refused(op, outcome) ==
    /\ opCount < MaxOps
    /\ opCount' = opCount + 1
    /\ lastEvent' = [op |-> op, outcome |-> outcome]
    /\ UNCHANGED <<projectStructure, history, historyIndex, isLoadingAI, nodesToDelete,
                   webContainer, appVars, wcStatus, fs, tasks, script, openFiles, activeFilePath, aiMessage,
                   searchVars>>

\* the names typed into the rename input
NewNames == {"a"}

handleRenameNode(path, newName) ==
    /\ Mounted
    /\ IF isLoadingAI THEN Refused("rename", "busy")
       ELSE IF findFileByPath(projectStructure, path) = Null
       THEN Refused("rename", "notFound")
       ELSE handleSendPrompt(RenamePrompt(path, newName))

handleMoveNode(sourcePath, targetParentPath) ==
    /\ Mounted
    /\ LET node == findFileByPath(projectStructure, sourcePath)
       IN  IF isLoadingAI THEN Refused("move", "busy")
           ELSE IF node = Null THEN Refused("move", "notFound")
           ELSE IF \/ sourcePath = targetParentPath
                   \/ node.type = "folder" /\ StartsWithDir(targetParentPath, sourcePath)
           THEN Refused("move", "invalid")
           ELSE handleSendPrompt(MovePrompt(sourcePath, targetParentPath))

\* FileNodeComponent.handleDrop: the node at sourcePath is dropped on the node
\* at nodePath; a drop it ignores changes nothing
handleDrop(sourcePath, nodePath) ==
    /\ Mounted
    /\ LET node == findFileByPath(projectStructure, nodePath)
           targetParentPath == IF node.type = "folder" THEN node.path
                               ELSE ParentDir(node.path)
           sourceParentPath == ParentDir(sourcePath)
       IN  /\ node # Null
           /\ sourcePath # node.path
           /\ ~(\/ sourcePath = targetParentPath
                \/ node.type = "folder" /\ StartsWithDir(targetParentPath, sourcePath))
           /\ ~(sourceParentPath = targetParentPath /\ node.type # "folder")
           /\ handleMoveNode(sourcePath, targetParentPath)

\* FileTree.handleDropOnRoot
handleDropOnRoot(sourcePath) ==
    /\ Mounted
    /\ ParentDir(sourcePath) # <<>>
    /\ handleMoveNode(sourcePath, <<>>)

NextAssist ==
    \/ WcBoot
    \/ handleSendPrompt(ChatPrompt)
    \/ \E s \in Slots, reply \in AiReplies : AiRespond(s, generateCodeFromPrompt(reply))
    \/ \E s \in Slots : AiResume(s)
    \/ \E path \in AllPaths, newName \in NewNames : handleRenameNode(path, newName)
    \/ \E sourcePath \in AllPaths, targetParentPath \in ParentPaths :
          handleMoveNode(sourcePath, targetParentPath)
    \/ /\ Mounted
       /\ \E sourcePath \in NodePaths(projectStructure),
             nodePath \in NodePaths(projectStructure) : handleDrop(sourcePath, nodePath)
    \/ /\ Mounted
       /\ \E sourcePath \in NodePaths(projectStructure) : handleDropOnRoot(sourcePath)

SpecAssist == Init /\ [][NextAssist]_vars

(***************************************************************************)
(* Every way a prompt is submitted: the send button of the assistant       *)
(* panel, the Refactor button of the refactor modal (opened before the     *)
(* request in flight was sent), a rename and a move.                       *)
(***************************************************************************)
RefactorPrompt == [kind |-> "refactor"]

\* handleSendPrompt without its check of isLoadingAI
handleSendPromptAlways(op, prompt) ==
    /\ Mounted
    /\ opCount < MaxOps
    /\ FreeSlots # {}
    /\ opCount' = opCount + 1
    /\ isLoadingAI' = TRUE
    /\ aiMessage' = Thinking
    /\ LET sorted == formatProjectStructureForAI(projectStructure)
           cl == SortedClosure(Closure, projectStructure, sorted)
       IN  /\ projectStructure' = cl.projectStructure
           /\ history' = cl.history
           /\ openFiles' = SyncOpenFiles(openFiles, sorted)
           /\ UNCHANGED activeFilePath
           /\ tasks' = [s \in Slots |->
                          IF s = FreeSlot
                          THEN [kind |-> "ai", pc |-> "generate", ok |-> TRUE, cl |-> cl,
                                dels |-> <<>>, upds |-> <<>>,
                                finalStructure |-> cl.projectStructure,
                                rt |-> 0, rtOk |-> 0,
                                response |-> Null]
                          ELSE SortedTask(tasks[s], projectStructure, sorted)]
    /\ lastEvent' = [op |-> "ai", outcome |-> "sent", prompt |-> prompt]
    /\ UNCHANGED <<historyIndex, nodesToDelete, webContainer, appVars, wcStatus, fs, script,
                   searchVars>>

\* a call of handleSendPrompt by the handler op: it returns at once while a
\* request is in flight
handleSendPromptOrReturn(op, prompt) ==
    IF isLoadingAI THEN Refused(op, "busy") ELSE handleSendPrompt(prompt)

\* AssistantPanel.handleSendClick, isLoading being isLoadingAI
handleSendClick(prompt) ==
    /\ Mounted
    /\ IF isLoadingAI THEN Refused("send", "busy")
       ELSE handleSendPromptOrReturn("send", prompt)

\* the modal closes and the prompt goes to handleSendPrompt
handleConfirmRefactor ==
    /\ Mounted
    /\ handleSendPromptOrReturn("refactor", RefactorPrompt)

NextPrompts ==
    \/ NextAssist
    \/ handleSendClick(ChatPrompt)
    \/ handleConfirmRefactor

SpecPrompts == Init /\ [][NextPrompts]_vars

(***************************************************************************)
(* The IDE with the user opening and closing editor tabs.                  *)
(***************************************************************************)
\* a click on a file of the file tree
handleOpenFile(path) ==
    /\ Mounted
    /\ openFiles' = OpenFile(openFiles, projectStructure, path)
    /\ activeFilePath' = OpenActive(activeFilePath, projectStructure, path)
    /\ openFiles' # openFiles \/ activeFilePath' # activeFilePath
    /\ UNCHANGED <<projectStructure, history, historyIndex, isLoadingAI, nodesToDelete,
                   webContainer, appVars, wcStatus, fs, tasks, opCount, lastEvent, script,
                   aiMessage, searchVars>>

\* a click on the cross of a tab; the render that follows runs the effect
\* that opens the default file when no buffer is left
handleCloseFile(path) ==
    /\ Mounted
    /\ \E i \in 1..Len(openFiles) : openFiles[i].path = path
    /\ openFiles' = OpenDefaultFile(SelectSeq(openFiles, LAMBDA f : f.path # path),
                                    projectStructure)
    /\ activeFilePath' = DefaultActive(ActiveAfterClose(activeFilePath, openFiles, path),
                                       SelectSeq(openFiles, LAMBDA f : f.path # path),
                                       projectStructure)
    /\ UNCHANGED <<projectStructure, history, historyIndex, isLoadingAI, nodesToDelete,
                   webContainer, appVars, wcStatus, fs, tasks, opCount, lastEvent, script,
                   aiMessage, searchVars>>

NextBuffers ==
    \/ Next
    \/ \E path \in AllPaths : handleOpenFile(path)
    \/ \E path \in AllPaths : handleCloseFile(path)

SpecBuffers == Init /\ [][NextBuffers]_vars

(***************************************************************************)
(* Deleting next to a file whose name continues the name of the deleted    *)
(* node: the project has the folder /src/a with the file /src/a/a, and the *)
(* file /src/ab, as a project may have /src/App and /src/App.tsx.  The     *)
(* runtime is not booted yet, so handleConfirmDelete runs without          *)
(* awaiting.                                                               *)
(***************************************************************************)
PrefixStructure ==
    << NewFolder("src", <<"src">>,
                 << NewFolder("a", <<"src", "a">>,
                              << NewFile("a", <<"src", "a", "a">>, "x") >>),
                    NewFile("ab", <<"src", "ab">>, "y") >>) >>

\* the nodes clicked in the file tree
PrefixPaths == {<<"src">>, <<"src", "a">>, <<"src", "a", "a">>, <<"src", "ab">>}

InitDelete == IDEOpenedOn(PrefixStructure) /\ FirstSession

NextDelete ==
    \/ \E path \in PrefixPaths : handleOpenFile(path)
    \/ \E path \in PrefixPaths : handleCloseFile(path)
    \/ \E path \in PrefixPaths : handleRequestDelete(<<path>>)
    \/ handleCancelDelete
    \/ handleConfirmDelete
    \/ handleUndo

SpecDelete == InitDelete /\ [][NextDelete]_vars

(***************************************************************************)
(* The search panel.  A query is the sequence of its characters; a pattern *)
(* is the sequence of the tokens handed to new RegExp.  A file content is  *)
(* lines of one lower-case letter each, so a pattern matches a line when   *)
(* its literal characters are that letter, and the first occurrence of a   *)
(* pattern in a line is the whole line.                                    *)
(***************************************************************************)
\* the texts typed into the replace box (the button is disabled on '')
ReplaceTexts == {"y", "z"}

\* the letters a line is made of
Letters == Contents \cup ReplaceTexts

\* the lines of the texts in the editor: one line or two
LineSeqs == {<<a>> : a \in Letters} \cup {<<a, b>> : a \in Letters, b \in Letters}

\* lines.join('\n')
RECURSIVE JoinLines(_)
JoinLines(lines) ==
    IF lines = <<>> THEN ""
    ELSE IF Len(lines) = 1 THEN lines[1]
    ELSE lines[1] \o "\n" \o JoinLines(Tail(lines))

\* the texts in the editor
Texts == {JoinLines(lines) : lines \in LineSeqs}

\* content.split('\n'); a content without a line break is one line
SplitLines(content) ==
    IF content \in Texts THEN CHOOSE lines \in LineSeqs : JoinLines(lines) = content
    ELSE <<content>>

\* the texts typed into the search box: nothing, a letter, an open group
Queries == {<<>>, <<"x">>, <<"y">>, <<"(">>}

\* the toggles of the search box
SearchOptions == [isCaseSensitive : {FALSE}, isRegex : BOOLEAN, isWholeWord : BOOLEAN]

\* the characters query.replace(/[-\/\\^$*+?.()|[\]{}]/g, '\\$&') escapes
SpecialChars == {"("}

\* query.replace(/[-\/\\^$*+?.()|[\]{}]/g, '\\$&')
RECURSIVE EscapeRegExp(_)
EscapeRegExp(query) ==
    IF query = <<>> THEN <<>>
    ELSE (IF Head(query) \in SpecialChars THEN <<"\\", Head(query)>> ELSE <<Head(query)>>)
         \o EscapeRegExp(Tail(query))

\* the pattern and the flags both handleSearch and searchInProject build
SearchPattern(query, options) ==
    LET pattern == IF options.isRegex THEN query ELSE EscapeRegExp(query)
    IN  IF ~options.isRegex /\ options.isWholeWord
        THEN <<"\\b">> \o pattern \o <<"\\b">>
        ELSE pattern

SearchFlags(options) == IF options.isCaseSensitive THEN "g" ELSE "gi"

\* an open group that no backslash precedes
Unterminated(pattern) ==
    \E i \in 1..Len(pattern) :
        /\ pattern[i] = "("
        /\ (i = 1 \/ pattern[i - 1] # "\\")

\* new RegExp(pattern, flags); ok = FALSE stands for the SyntaxError
RegExp(pattern, flags) ==
    [ok |-> ~Unterminated(pattern), source |-> pattern, flags |-> flags]

\* lineRegex.exec(line) finds a match in the line
RegExpExec(regex, line) ==
    SelectSeq(regex.source, LAMBDA c : c \notin {"\\", "\\b"}) = <<line>>

\* the matches of the lines of a content, lines.forEach((line, index) => ...)
LineMatches(regex, content) ==
    LET lines == SplitLines(content)
        hit == [index \in 1..Len(lines) |->
                  [lineNumber |-> index, content |-> lines[index]]]
    IN  SelectSeq(hit, LAMBDA m : RegExpExec(regex, m.content))

\* searchInNode over the nodes in tree order
RECURSIVE SearchInNodes(_, _)
SearchInNodes(nodes, regex) ==
    IF nodes = <<>> THEN <<>>
    ELSE LET node == Head(nodes)
             found == IF node.type = "file"
                      THEN IF node.content # NoContent
                              /\ LineMatches(regex, node.content) # <<>>
                           THEN << [path |-> node.path,
                                    matches |-> LineMatches(regex, node.content)] >>
                           ELSE <<>>
                      ELSE SearchInNodes(node.children, regex)
         IN  found \o SearchInNodes(Tail(nodes), regex)

searchInProject(nodes, query, options) ==
    LET regex == RegExp(SearchPattern(query, options), SearchFlags(options))
    IN  IF query = <<>> \/ ~regex.ok THEN <<>> ELSE SearchInNodes(nodes, regex)

\* the search box submits, at once or 300 ms after the last key
handleSearch(query, options) ==
    LET regex == RegExp(SearchPattern(query, options), SearchFlags(options))
    IN  /\ Mounted
        /\ searchQuery' = [query |-> query, options |-> options]
        /\ IF query = <<>>
           THEN /\ searchResults' = <<>>
                /\ lastSearchRegex' = Null
                /\ lastEvent' = [op |-> "search", outcome |-> "cleared"]
           ELSE IF ~regex.ok
           THEN /\ lastEvent' = [op |-> "search", outcome |-> "invalidRegex"]
                /\ UNCHANGED <<searchResults, lastSearchRegex>>
           ELSE /\ lastSearchRegex' = regex
                /\ searchResults' = searchInProject(projectStructure, query, options)
                /\ lastEvent' = [op |-> "search", outcome |-> "results"]
        /\ UNCHANGED <<projectStructure, history, historyIndex, isLoadingAI, nodesToDelete,
                       webContainer, appVars, wcStatus, fs, tasks, opCount, script, openFiles, activeFilePath,
                       aiMessage, lineLoop>>

\* the IDE with the search panel in use between edits and undos
NextSearch ==
    \/ \E path \in FilePaths(projectStructure), content \in Contents :
          handleFileContentChange(path, content)
    \/ handleUndo
    \/ \E query \in Queries, options \in SearchOptions : handleSearch(query, options)

SpecSearch == Init /\ [][NextSearch]_vars

(***************************************************************************)
(* searchInNode at work on one line, an iteration of its while loop at a   *)
(* time.  Here a line is the sequence of its characters and a pattern may  *)
(* repeat a character with a star; lineRegex.exec is computed as           *)
(* RegExpBuiltinExec does for a global regex: the search starts at         *)
(* lastIndex, a match sets lastIndex to the end of the match, no match     *)
(* resets it to 0.                                                         *)
(***************************************************************************)
\* the lines searched: up to MaxLineLen characters
MaxLineLen == 2
LineChars == {"x", "y"}
RECURSIVE LinesOfLen(_)
LinesOfLen(n) ==
    IF n = 0 THEN {<<>>}
    ELSE {Append(line, c) : line \in LinesOfLen(n - 1), c \in LineChars}
SearchLines == UNION {LinesOfLen(n) : n \in 0..MaxLineLen}

\* the texts typed into the search box, with a repeated letter among them
LoopQueries == (Queries \ {<<>>}) \cup {<<"x", "*">>, <<"y", "x", "*">>}

\* the characters query.replace(/[-\/\\^$*+?.()|[\]{}]/g, '\\$&') escapes
LoopSpecialChars == SpecialChars \cup {"*"}

RECURSIVE LoopEscapeRegExp(_)
LoopEscapeRegExp(query) ==
    IF query = <<>> THEN <<>>
    ELSE (IF Head(query) \in LoopSpecialChars THEN <<"\\", Head(query)>>
          ELSE <<Head(query)>>)
         \o LoopEscapeRegExp(Tail(query))

LoopPattern(query, options) ==
    LET pattern == IF options.isRegex THEN query ELSE LoopEscapeRegExp(query)
    IN  IF ~options.isRegex /\ options.isWholeWord
        THEN <<"\\b">> \o pattern \o <<"\\b">>
        ELSE pattern

\* the pattern as the matcher reads it: a word boundary, or a character
\* (escaped or not) that a star may follow
RECURSIVE Atoms(_)
Atoms(source) ==
    IF source = <<>> THEN <<>>
    ELSE IF Head(source) = "\\b"
    THEN <<[kind |-> "boundary", c |-> "", star |-> FALSE]>> \o Atoms(Tail(source))
    ELSE LET escaped == Head(source) = "\\"
             c == IF escaped THEN source[2] ELSE Head(source)
             rest == IF escaped THEN Tail(Tail(source)) ELSE Tail(source)
             star == rest # <<>> /\ Head(rest) = "*"
         IN  <<[kind |-> "char", c |-> c, star |-> star]>>
                \o Atoms(IF star THEN Tail(rest) ELSE rest)

\* \w
IsWordChar(c) == c \in LineChars

\* \b holds at position i (i characters of the line are before it)
AtBoundary(line, i) ==
    (i > 0 /\ IsWordChar(line[i])) # (i < Len(line) /\ IsWordChar(line[i + 1]))

\* how many times c is repeated in the line from position i on
RECURSIVE Run(_, _, _)
Run(c, line, i) ==
    IF i < Len(line) /\ line[i + 1] = c THEN 1 + Run(c, line, i + 1) ELSE 0

\* the end of the match of the atoms at position i of the line, -1 when they
\* do not match there; a star takes as many repetitions as the rest allows
RECURSIVE MatchFrom(_, _, _)
RECURSIVE StarFrom(_, _, _, _)
MatchFrom(atoms, line, i) ==
    IF atoms = <<>> THEN i
    ELSE LET a == Head(atoms)
         IN  IF a.kind = "boundary"
             THEN IF AtBoundary(line, i) THEN MatchFrom(Tail(atoms), line, i) ELSE -1
             ELSE IF a.star
             THEN StarFrom(atoms, line, i, Run(a.c, line, i))
             ELSE IF i < Len(line) /\ line[i + 1] = a.c
             THEN MatchFrom(Tail(atoms), line, i + 1)
             ELSE -1

StarFrom(atoms, line, i, n) ==
    LET e == MatchFrom(Tail(atoms), line, i + n)
    IN  IF e # -1 THEN e
        ELSE IF n = 0 THEN -1
        ELSE StarFrom(atoms, line, i, n - 1)

\* lineRegex.exec(line) with lineRegex.lastIndex = lastIndex: the match and
\* the lastIndex it leaves
lineRegexExec(source, line, lastIndex) ==
    LET atoms == Atoms(source)
        starts == {i \in lastIndex..Len(line) : MatchFrom(atoms, line, i) # -1}
        index == CHOOSE i \in starts : \A j \in starts : i <= j
        e == MatchFrom(atoms, line, index)
    IN  IF starts = {}
        THEN [found |-> FALSE, index |-> 0, length |-> 0, lastIndex |-> 0]
        ELSE [found |-> TRUE, index |-> index, length |-> e - index, lastIndex |-> e]

\* the iterations of the while loop the model follows for one line
MaxMatches == 4

LoopUnchanged ==
    UNCHANGED <<projectStructure, history, historyIndex, isLoadingAI, nodesToDelete,
                webContainer, wcStatus, fs, tasks, opCount, lastEvent, script, openFiles, activeFilePath,
                aiMessage, searchQuery, searchResults, lastSearchRegex, appVars>>

\* lines.forEach((line, index) => ...) comes to a line: lineRegex is a copy
\* of the regex searchInProject compiled, with lastIndex 0
LineStart(line, query, options) ==
    LET regex == RegExp(LoopPattern(query, options), SearchFlags(options))
    IN  /\ lineLoop.pc # "loop"
        /\ regex.ok
        /\ lineLoop' = [pc |-> "loop", line |-> line, source |-> regex.source,
                        lastIndex |-> 0, lineMatches |-> <<>>]
        /\ LoopUnchanged

\* one evaluation of the loop condition (match = lineRegex.exec(line)) !==
\* null and, on a match, of the body: lineRegex is global, so no break
LineExec ==
    /\ lineLoop.pc = "loop"
    /\ Len(lineLoop.lineMatches) < MaxMatches
    /\ LET match == lineRegexExec(lineLoop.source, lineLoop.line, lineLoop.lastIndex)
       IN  lineLoop' =
              IF match.found
              THEN [lineLoop EXCEPT !.lastIndex = match.lastIndex,
                                    !.lineMatches = Append(@, [start |-> match.index,
                                                               length |-> match.length])]
              ELSE [lineLoop EXCEPT !.pc = "left", !.lastIndex = match.lastIndex]
    /\ LoopUnchanged

NextLines ==
    \/ \E line \in SearchLines, query \in LoopQueries, options \in SearchOptions :
          LineStart(line, query, options)
    \/ LineExec

SpecLines == Init /\ [][NextLines]_vars

(***************************************************************************)
(* Replace in the search panel.  handleReplaceOne rewrites one line of the *)
(* file from the match it is given and hands the new content to            *)
(* handleFileContentChange, which awaits writeFile when the runtime is     *)
(* ready; then it searches the new tree for searchQuery.                   *)
(***************************************************************************)
\* the (path, match) pairs the panel lists, each with its replace button
ResultMatches ==
    UNION {{[path |-> searchResults[i].path, match |-> searchResults[i].matches[j]] :
               j \in 1..Len(searchResults[i].matches)} : i \in 1..Len(searchResults)}

\* line.replace(lineRegex, replaceText), lineRegex without the g flag
JsReplace(line, regex, replaceText) ==
    IF RegExpExec(regex, line) THEN replaceText ELSE line

\* lines[lineIndex] = match.content.replace(lineRegex, replaceText); join
ReplacedContent(content, match, regex, replaceText) ==
    JoinLines([SplitLines(content) EXCEPT ![match.lineNumber] =
                   JsReplace(match.content, regex, replaceText)])

\* after handleFileContentChange returned newStructure: the search again
ReplaceOneFinish(cl, query, path, newContent, s, rt) ==
    LET newStructure == addOrUpdateFileByPath(cl.projectStructure, path, newContent)
    IN  /\ Push(cl, newStructure)
        /\ openFiles' = Settle(openFiles, newStructure)
        /\ activeFilePath' = SettleActive(activeFilePath, openFiles, newStructure)
        /\ searchResults' = IF query # Null
                            THEN searchInProject(newStructure, query.query, query.options)
                            ELSE searchResults
        /\ lastEvent' = [op |-> "replaceOne", outcome |-> "commit", slot |-> s, rt |-> rt,
                         dropped |-> Dropped(cl)]

handleReplaceOne(path, match, replaceText) ==
    LET file == findFileByPath(projectStructure, path)
    IN  /\ Mounted
        /\ opCount < MaxOps
        /\ opCount' = opCount + 1
        /\ IF \/ lastSearchRegex = Null
              \/ file = Null
              \/ file.content = NoContent
              \/ match.lineNumber > Len(SplitLines(file.content))
              \/ isLoadingAI
           THEN /\ lastEvent' = [op |-> "replaceOne", outcome |-> "ignored"]
                /\ UNCHANGED <<projectStructure, history, historyIndex, fs, tasks,
                               openFiles, activeFilePath, searchResults>>
           ELSE LET newContent == ReplacedContent(file.content, match, lastSearchRegex,
                                                  replaceText)
                IN  IF webContainer /\ wcStatus = "ready"
                    THEN /\ FreeSlots # {}
                         /\ LET w == FsWriteFile(fs, path, newContent)
                            IN  /\ fs' = w.fs
                                /\ tasks' = [tasks EXCEPT ![FreeSlot] =
                                               [kind |-> "replaceOne", pc |-> "writeFile",
                                                ok |-> w.ok, cl |-> Closure, path |-> path,
                                                content |-> newContent,
                                                searchQuery |-> searchQuery]]
                         /\ lastEvent' = [op |-> "replaceOne", outcome |-> "await"]
                         /\ UNCHANGED <<projectStructure, history, historyIndex, openFiles, activeFilePath,
                                        searchResults>>
                    ELSE /\ ReplaceOneFinish(Closure, searchQuery, path, newContent, 0, 0)
                         /\ UNCHANGED <<fs, tasks>>
        /\ UNCHANGED <<isLoadingAI, nodesToDelete, webContainer, appVars, wcStatus, script, aiMessage,
                       searchQuery, lastSearchRegex, lineLoop>>

\* the continuation after await wc.fs.writeFile; a rejection leaves both
\* handlers
ReplaceOneResume(s) ==
    /\ Mounted
    /\ tasks[s].kind = "replaceOne"
    /\ LET t == tasks[s]
       IN  IF t.ok
           THEN ReplaceOneFinish(t.cl, t.searchQuery, t.path, t.content, s, 1)
           ELSE /\ lastEvent' = [op |-> "replaceOne", outcome |-> "aborted", slot |-> s,
                                 rt |-> 1]
                /\ UNCHANGED <<projectStructure, history, historyIndex, openFiles, activeFilePath,
                               searchResults>>
    /\ tasks' = [tasks EXCEPT ![s] = Idle]
    /\ UNCHANGED <<isLoadingAI, nodesToDelete, webContainer, appVars, wcStatus, fs, opCount, script,
                   aiMessage, searchQuery, lastSearchRegex, lineLoop>>

\* the IDE with the search panel and the editor in use
NextReplace ==
    \/ WcBoot
    \/ WcServerReady
    \/ \E path \in FilePaths(projectStructure), content \in Texts :
          handleFileContentChange(path, content)
    \/ \E s \in Slots : FileContentChangeResume(s)
    \/ \E query \in Queries, options \in SearchOptions : handleSearch(query, options)
    \/ \E r \in ResultMatches, replaceText \in ReplaceTexts :
          handleReplaceOne(r.path, r.match, replaceText)
    \/ \E s \in Slots : ReplaceOneResume(s)

SpecReplace == Init /\ [][NextReplace]_vars

(***************************************************************************)
(* App from its mount on: the load effect, the two save effects, and the   *)
(* handlers of the dashboard.                                              *)
(***************************************************************************)
\* App before its mount effects have run
InitApp ==
    /\ InitIDE
    /\ projects = <<>>
    /\ activeProjectId = NullId
    /\ isLoading = TRUE
    /\ localStorage \in StoredStates
    /\ appRender = [projects |-> <<>>, activeProjectId |-> NullId, isLoading |-> TRUE,
                    effects |-> MountEffects]
    /\ storageCalls = <<>>

NextEffect(name) ==
    /\ appRender.effects # <<>>
    /\ Head(appRender.effects) = name
    /\ appRender' = [appRender EXCEPT !.effects = Tail(appRender.effects)]

\* the effect on []: the stored list becomes the state, or both keys are
\* removed when it cannot be read
LoadEffect ==
    LET r == LoadProjects(localStorage.codematic_projects)
    IN  /\ NextEffect("load")
        /\ IF r.ok
           THEN /\ projects' = r.projects
                /\ activeProjectId' = localStorage.codematic_active_project_id
                /\ storageCalls' = <<>>
                /\ UNCHANGED localStorage
           ELSE /\ localStorage' = [codematic_projects |-> NoItem,
                                    codematic_active_project_id |-> NullId]
                /\ storageCalls' = <<RemoveItem("codematic_projects"),
                                     RemoveItem("codematic_active_project_id")>>
                /\ UNCHANGED <<projects, activeProjectId>>
        /\ isLoading' = FALSE
        /\ UNCHANGED ideVars

\* the effect on [projects, isLoading], without its check of isLoading
SaveProjectsEffectUnguarded ==
    /\ NextEffect("saveProjects")
    /\ localStorage' = [localStorage EXCEPT
                           !.codematic_projects = JsonStringify(appRender.projects)]
    /\ storageCalls' = <<SetItem("codematic_projects")>>
    /\ UNCHANGED <<projects, activeProjectId, isLoading, ideVars>>

\* the effect on [projects, isLoading]
SaveProjectsEffect ==
    /\ NextEffect("saveProjects")
    /\ IF appRender.isLoading
       THEN /\ storageCalls' = <<>>
            /\ UNCHANGED localStorage
       ELSE /\ localStorage' = [localStorage EXCEPT
                                  !.codematic_projects = JsonStringify(appRender.projects)]
            /\ storageCalls' = <<SetItem("codematic_projects")>>
    /\ UNCHANGED <<projects, activeProjectId, isLoading, ideVars>>

\* the effect on [activeProjectId, isLoading]
SaveActiveProjectIdEffect ==
    /\ NextEffect("saveActiveProjectId")
    /\ IF appRender.isLoading
       THEN /\ storageCalls' = <<>>
            /\ UNCHANGED localStorage
       ELSE /\ localStorage' = [localStorage EXCEPT
                                  !.codematic_active_project_id = appRender.activeProjectId]
            /\ storageCalls' =
                  IF appRender.activeProjectId # NullId
                  THEN <<SetItem("codematic_active_project_id")>>
                  ELSE <<RemoveItem("codematic_active_project_id")>>
    /\ UNCHANGED <<projects, activeProjectId, isLoading, ideVars>>

\* the render after a change of state, with the effects whose dependencies
\* changed
AppRender ==
    /\ appRender.effects = <<>>
    /\ <<projects, activeProjectId, isLoading>>
          # <<appRender.projects, appRender.activeProjectId, appRender.isLoading>>
    /\ appRender' =
          [projects |-> projects, activeProjectId |-> activeProjectId,
           isLoading |-> isLoading,
           effects |->
              (IF projects # appRender.projects \/ isLoading # appRender.isLoading
               THEN <<"saveProjects">> ELSE <<>>)
              \o (IF activeProjectId # appRender.activeProjectId
                     \/ isLoading # appRender.isLoading
                  THEN <<"saveActiveProjectId">> ELSE <<>>)]
    /\ storageCalls' = <<>>
    /\ UNCHANGED <<projects, activeProjectId, isLoading, localStorage, ideVars>>

\* the render is up to date and its effects have run
AppSettled ==
    /\ appRender.effects = <<>>
    /\ <<projects, activeProjectId, isLoading>>
          = <<appRender.projects, appRender.activeProjectId, appRender.isLoading>>

\* the project the IDE is open on, if any
ActiveProjects == {i \in 1..Len(projects) : projects[i].id = activeProjectId}

\* the dashboard is on screen
DashboardShown == AppSettled /\ ~isLoading /\ ActiveProjects = {}

\* a handler of the dashboard or of the IDE that sets state
AppHandler(newProjects, newActiveProjectId) ==
    /\ projects' = newProjects
    /\ activeProjectId' = newActiveProjectId
    /\ storageCalls' = <<>>
    /\ UNCHANGED <<isLoading, localStorage, appRender, ideVars>>

\* handleCreateProject with the type 'template'
handleCreateProject(id) ==
    /\ DashboardShown
    /\ \A i \in 1..Len(projects) : projects[i].id # id
    /\ AppHandler(Append(projects, Project(id, "A newly created project.")), id)

handleDeleteProject(id) ==
    /\ DashboardShown
    /\ \E i \in 1..Len(projects) : projects[i].id = id
    /\ AppHandler(SelectSeq(projects, LAMBDA p : p.id # id),
                  IF activeProjectId = id THEN NullId ELSE activeProjectId)

handleSelectProject(id) ==
    /\ DashboardShown
    /\ \E i \in 1..Len(projects) : projects[i].id = id
    /\ AppHandler(projects, id)

handleExitIDE ==
    /\ AppSettled
    /\ ~isLoading
    /\ ActiveProjects # {}
    /\ AppHandler(projects, NullId)

NextApp ==
    \/ LoadEffect
    \/ SaveProjectsEffect
    \/ SaveActiveProjectIdEffect
    \/ AppRender
    \/ \E id \in ProjectIds : handleCreateProject(id)
    \/ \E id \in ProjectIds : handleDeleteProject(id)
    \/ \E id \in ProjectIds : handleSelectProject(id)
    \/ handleExitIDE

SpecApp == InitApp /\ [][NextApp]_vars

(***************************************************************************)
(* The tree functions alone: addOrUpdateFileByPath, deleteNodeByPath and   *)
(* addNodeToTree called in any order on the tree in projectStructure, from *)
(* the initial tree; lastEvent holds the last call.                        *)
(***************************************************************************)
TreeCall(call, newStructure) ==
    /\ opCount' = opCount + 1
    /\ projectStructure' = newStructure
    /\ lastEvent' = call
    /\ UNCHANGED <<history, historyIndex, isLoadingAI, nodesToDelete, webContainer, appVars,
                   wcStatus, fs, tasks, script, openFiles, activeFilePath, aiMessage, searchVars>>

TreeUpsert(path, content) ==
    /\ opCount < MaxCalls
    /\ TreeCall([op |-> "addOrUpdateFileByPath", path |-> path, content |-> content],
                addOrUpdateFileByPath(projectStructure, path, content))

TreeDelete(path) ==
    /\ opCount < MaxCalls
    /\ TreeCall([op |-> "deleteNodeByPath", path |-> path],
                deleteNodeByPath(projectStructure, path))

\* a call that throws leaves the tree
TreeAddNode(parentPath, nodeName, type) ==
    LET r == addNodeToTree(projectStructure, parentPath, nodeName, type)
    IN  /\ opCount < MaxCalls
        /\ TreeCall([op |-> "addNodeToTree", path |-> JoinPath(parentPath, nodeName),
                     type |-> type, ok |-> r.ok], r.tree)

NextTree ==
    \/ \E path \in AllPaths, content \in Contents : TreeUpsert(path, content)
    \/ \E path \in AllPaths : TreeDelete(path)
    \/ \E parentPath \in ParentPaths, nodeName \in NodeNames, type \in NodeTypes :
          TreeAddNode(parentPath, nodeName, type)

SpecTree == Init /\ [][NextTree]_vars

(***************************************************************************)
(* Properties.                                                             *)
(***************************************************************************)
\* the step is one of a mutating handler: it starts an invocation or it
\* resumes a suspended one
HandlerStep == opCount' # opCount \/ tasks' # tasks

\* the step is one of handler op and leaves it in one of the outcomes
Ended(op, outcomes) ==
    /\ HandlerStep
    /\ lastEvent'.op = op
    /\ lastEvent'.outcome \in outcomes

\* the history and cursor held by the closure of the handler that takes the step
StepClosure == IF lastEvent'.slot = 0 THEN Closure ELSE tasks[lastEvent'.slot].cl

\* C1: redo moves forward.  Whenever handleRedo runs with the cursor before
\* the last snapshot, the cursor becomes cursor + 1, the live tree becomes
\* the snapshot after the cursor, and the snapshots are unchanged.
C1_RedoMovesForward ==
    [][(handleRedo /\ historyIndex < Len(history) - 1)
         => /\ historyIndex' = historyIndex + 1
            /\ projectStructure' = history[historyIndex + 2]
            /\ history' = history]_vars

\* C2: history round trip.  After N >= 1 pushes from the initial history,
\* N undos and N redos, the cursor is at the last snapshot and the live tree
\* is the tree of the last push.
C2_HistoryRoundTrip ==
    (script # Broken /\ script.p >= 1 /\ script.u = script.p /\ script.r = script.p)
        => /\ historyIndex = Len(history) - 1
           /\ projectStructure = script.last

\* C3: push truncates the redo branch.  Every pushHistory(t), from the
\* snapshots and cursor its closure holds, leaves snapshots[0..cursor]
\* followed by t, the cursor on the last snapshot and t as the live tree, so
\* that nothing can be redone.
C3_PushTruncates ==
    [][(HandlerStep /\ lastEvent'.outcome = "commit")
         => LET cl == StepClosure
            IN  /\ cl.historyIndex \in 0..(Len(cl.history) - 1)
                /\ history' = Append(SubSeq(cl.history, 1, cl.historyIndex + 1),
                                     projectStructure')
                /\ historyIndex' = Len(history') - 1
                /\ ~(historyIndex' < Len(history') - 1)]_vars

\* a push that followed an undo has dropped the undone snapshots
C3_Witness ==
    /\ lastEvent.outcome = "commit"
    /\ lastEvent.dropped >= 1
    /\ historyIndex = Len(history) - 1
    /\ projectStructure = history[Len(history)]

\* C4: history is consistent with the live tree.  In every state the cursor
\* points at a snapshot and the live tree is that snapshot.
C4_TreeIsSnapshotAtCursor ==
    /\ historyIndex \in 0..(Len(history) - 1)
    /\ projectStructure = history[historyIndex + 1]

\* the content of the last update of path p in a batch
RECURSIVE LastUpdate(_, _)
LastUpdate(filesToUpdate, p) ==
    IF filesToUpdate[Len(filesToUpdate)].path = p
    THEN filesToUpdate[Len(filesToUpdate)].content
    ELSE LastUpdate(SubSeq(filesToUpdate, 1, Len(filesToUpdate) - 1), p)

InBoth(response) ==
    {p \in AiPaths :
        /\ \E i \in 1..Len(response.filesToDelete) : response.filesToDelete[i] = p
        /\ \E i \in 1..Len(response.filesToUpdate) : response.filesToUpdate[i].path = p}

\* what C5 asks of the step that ends applyAiChanges for a batch
AiBatchDone(cl, response) ==
    /\ lastEvent'.outcome = "commit"
    /\ history' = Append(SubSeq(cl.history, 1, cl.historyIndex + 1), projectStructure')
    /\ \A p \in InBoth(response) :
          LET node == findFileByPath(projectStructure', p)
          IN  /\ node # Null
              /\ node.type = "file"
              /\ node.content = LastUpdate(response.filesToUpdate, p)

\* C5: an AI batch is one undoable unit with deletions before updates.
\* Every non-empty batch ends with exactly one snapshot appended to the
\* history it was given, and every path both deleted and updated is then a
\* file holding the content of its last update.
C5_AiBatchOneSnapshot ==
    [][/\ \A s \in Slots, response \in AiResponses :
             (AiRespond(s, response) /\ Ended("ai", {"commit", "aborted"}))
                 => AiBatchDone(tasks[s].cl, response)
       /\ \A s \in Slots :
             (AiResume(s) /\ Ended("ai", {"commit", "aborted"}))
                 => AiBatchDone(tasks[s].cl, tasks[s].response)]_vars

\* C6: an AI batch is applied atomically.  When applyAiChanges is left by a
\* failed mkdir or writeFile, no file of the batch has been written to or
\* removed from the runtime.
C6_AiBatchAtomic ==
    [][Ended("ai", {"aborted"})
         => /\ lastEvent'.rtOk = 0
            /\ UNCHANGED <<projectStructure, history, historyIndex>>]_vars

\* the protected paths of the claim
C7_Paths ==
    {<<"package.json">>, <<"src">>, <<"public">>, <<"index.html">>, <<"vite.config.ts">>}

HasProtectedNode(paths) ==
    \E i \in 1..Len(paths) :
        paths[i] \in C7_Paths /\ findFileByPath(projectStructure, paths[i]) # Null

AddNodeInvalid(nodes, parentPath, nodeName) ==
    \/ findFileByPath(nodes, JoinPath(parentPath, nodeName)) # Null
    \/ parentPath # <<>> /\ findFileByPath(nodes, parentPath) = Null

\* C8: a rejected addNode changes neither tree nor history.  When
\* handleAddNode is called for a path that exists or under a parent that
\* does not, no step of it changes the live tree, the snapshots or the
\* cursor.
C8_RejectedAddNode ==
    [][Ended("addNode", {"await", "commit", "rejected", "aborted"})
         => /\ \A parentPath \in ParentPaths, nodeName \in NewNodeNames, type \in NodeTypes :
                  (handleAddNode(parentPath, nodeName, type)
                     /\ AddNodeInvalid(projectStructure, parentPath, nodeName))
                      => UNCHANGED <<projectStructure, history, historyIndex>>
            /\ \A s \in Slots :
                  (AddNodeResume(s)
                     /\ AddNodeInvalid(tasks[s].cl.projectStructure, tasks[s].parentPath,
                                       tasks[s].nodeName))
                      => UNCHANGED <<projectStructure, history, historyIndex>>]_vars

\* handleAddNode has been rejected for a path that exists, with the tree at
\* the cursor's snapshot
C8_Witness ==
    /\ lastEvent.op = "addNode"
    /\ lastEvent.outcome = "rejected"
    /\ lastEvent.error = "exists"
    /\ projectStructure = history[historyIndex + 1]

\* C9: validation comes before the runtime mirror.  When handleAddNode is
\* rejected for a path that exists or a parent that does not, it has issued
\* no mkdir or writeFile to the runtime.
C9_ValidateBeforeMirror ==
    [][Ended("addNode", {"rejected"}) => lastEvent'.rt = 0]_vars

\* C10: the mirror comes after the push.  When a handler pushes its new
\* tree to history, it has issued none of its runtime calls yet.
C10_MirrorAfterPush ==
    [][(HandlerStep /\ lastEvent'.outcome = "commit") => lastEvent'.rt = 0]_vars

\* C11: a runtime mirror failure does not stop the in-memory commit.  When
\* the runtime has rejected the writeFile, mkdir or rm of a file content
\* change, an add node or a confirmed delete, the handler still applies its
\* change to the tree and pushes it to history.
C11_MirrorFailureNonFatal ==
    [][\A s \in Slots :
         /\ (FileContentChangeResume(s) /\ ~tasks[s].ok)
               => /\ lastEvent'.outcome = "commit"
                  /\ projectStructure' = addOrUpdateFileByPath(tasks[s].cl.projectStructure,
                                                               tasks[s].path, tasks[s].content)
                  /\ history'[Len(history')] = projectStructure'
         /\ (AddNodeResume(s) /\ ~tasks[s].ok
               /\ addNodeToTree(tasks[s].cl.projectStructure, tasks[s].parentPath,
                                tasks[s].nodeName, tasks[s].type).ok)
               => /\ lastEvent'.outcome = "commit"
                  /\ projectStructure' = addNodeToTree(tasks[s].cl.projectStructure,
                                                       tasks[s].parentPath, tasks[s].nodeName,
                                                       tasks[s].type).tree
                  /\ history'[Len(history')] = projectStructure'
         /\ (ConfirmDeleteResume(s) /\ ~tasks[s].ok)
               => lastEvent'.outcome # "aborted"]_vars

\* one of the paths is the other or lies under it
OnOnePath(p, q) == p = q \/ StartsWithDir(p, q) \/ StartsWithDir(q, p)

\* C12: lookup reflects the last write.  After addOrUpdateFileByPath(root, p,
\* c), findFileByPath(root, p) is a file node with content c; after
\* deleteNodeByPath(root, p) it is null for p and for every path under p;
\* and the lookup of every path that is not p, above p or under p is as it
\* was before the call.
C12_LookupReflectsLastWrite ==
    [][/\ \A p \in AllPaths, c \in Contents :
             TreeUpsert(p, c)
                 => /\ findFileByPath(projectStructure', p) # Null
                    /\ findFileByPath(projectStructure', p).type = "file"
                    /\ findFileByPath(projectStructure', p).content = c
                    /\ \A q \in AllPaths :
                          ~OnOnePath(p, q) => findFileByPath(projectStructure', q)
                                                = findFileByPath(projectStructure, q)
       /\ \A p \in AllPaths :
             TreeDelete(p)
                 => /\ findFileByPath(projectStructure', p) = Null
                    /\ \A q \in AllPaths :
                          StartsWithDir(q, p) => findFileByPath(projectStructure', q) = Null
                    /\ \A q \in AllPaths :
                          ~OnOnePath(p, q) => findFileByPath(projectStructure', q)
                                                = findFileByPath(projectStructure, q)]_vars

\* no two nodes of one level have the same name, at every level
RECURSIVE SiblingsUnique(_)
SiblingsUnique(nodes) ==
    /\ \A i, j \in 1..Len(nodes) : i # j => nodes[i].name # nodes[j].name
    /\ \A i \in 1..Len(nodes) : SiblingsUnique(nodes[i].children)

\* C13: sibling names stay unique.  Every tree that a sequence of
\* addOrUpdateFileByPath, addNodeToTree and deleteNodeByPath calls (the calls
\* an AI batch is made of) yields from the initial tree has no two siblings
\* of the same name.
C13_SiblingNamesUnique == SiblingsUnique(projectStructure)

\* C14: stored snapshots are immutable.  Undo, redo and sending an AI prompt
\* leave every snapshot of history as it was, and a push keeps the snapshots
\* up to the cursor of its closure as they were.
C14_SnapshotsImmutable ==
    [][/\ (handleUndo \/ handleRedo \/ handleSendPrompt(ChatPrompt)) => history' = history
       /\ (HandlerStep /\ lastEvent'.outcome = "commit")
             => \A i \in 1..(Len(history') - 1) : history'[i] = StepClosure.history[i]]_vars

\* C15: open buffers track the tree.  In every state in which the IDE is
\* rendered each open buffer is the file node at its path in the live tree,
\* with that node's content; a buffer whose path is not in the live tree is
\* not open.
C15_BuffersTrackTree ==
    Mounted =>
        \A i \in 1..Len(openFiles) :
            LET node == findFileByPath(projectStructure, openFiles[i].path)
            IN  /\ node # Null
                /\ node.type = "file"
                /\ openFiles[i].content = node.content

\* the handlers of the user's own edits that the model holds
ManualOps == {"edit", "addNode", "delete"}

\* C16: two user actions never interleave.  When a manual operation commits
\* right after another manual operation has committed, with no AI request in
\* flight and no undo in between, it has computed its tree from the tree the
\* other committed and it adds its snapshot to the history the other left,
\* so that history holds a snapshot for each.
C16_ActionsDoNotInterleave ==
    [][(/\ HandlerStep
        /\ lastEvent'.outcome = "commit" /\ lastEvent'.op \in ManualOps
        /\ lastEvent.outcome = "commit" /\ lastEvent.op \in ManualOps
        /\ ~isLoadingAI
        /\ historyIndex = Len(history) - 1)
         => /\ StepClosure.projectStructure = projectStructure
            /\ history' = Append(history, projectStructure')]_vars

\* the step sends no prompt to the AI and leaves the tree and the history
NoAiRequest ==
    /\ lastEvent'.outcome # "sent"
    /\ UNCHANGED <<projectStructure, history, historyIndex, isLoadingAI, tasks>>

\* C17: moving a node into its current parent is a rejected no-op.  For
\* every node p of the live tree, handleMoveNode(p, parentOf(p)), and the
\* drop of p on its parent folder in the file tree, send no prompt to the AI
\* and leave the live tree and the history unchanged.
C17_MoveToOwnParent ==
    [][\A p \in AllPaths :
         (/\ Mounted
          /\ findFileByPath(projectStructure, p) # Null
          /\ \/ handleMoveNode(p, ParentDir(p))
             \/ ParentDir(p) # <<>> /\ handleDrop(p, ParentDir(p)))
            => NoAiRequest]_vars

\* C18: renaming a protected path is rejected by the dispatcher.  For every
\* node of the live tree at one of the five protected paths,
\* handleRenameNode sends no rename prompt to the AI and leaves the tree and
\* the history unchanged.
C18_ProtectedRenameRejected ==
    [][\A p \in C7_Paths, newName \in NewNames :
         (/\ Mounted
          /\ p \in AllPaths
          /\ findFileByPath(projectStructure, p) # Null
          /\ handleRenameNode(p, newName))
            => NoAiRequest]_vars

\* the message the claim expects for a reply without edits
InformationalMessage(reply) ==
    IF reply.throws THEN CallFailed
    ELSE IF reply.text = <<>> THEN EmptyResponse
    ELSE IF reply.text[1].tag \in {"summary", "text"} THEN reply.text[1].body
    ELSE NoSummary

\* C19: a response without edits is informational only.  When the reply of
\* the model gives no update and no deletion (a summary alone, plain text,
\* markup without tags, an empty text or a failed call), the step that takes
\* the response changes neither the tree nor the history nor the runtime
\* files nor the open buffers, and the assistant's message becomes the
\* summary or the error text.
C19_InformationalOnly ==
    [][\A s \in Slots, reply \in AiReplies :
         LET response == generateCodeFromPrompt(reply)
         IN  (/\ response.filesToUpdate = <<>>
              /\ response.filesToDelete = <<>>
              /\ AiRespond(s, response))
                => /\ UNCHANGED <<projectStructure, history, historyIndex, fs, openFiles, activeFilePath>>
                   /\ tasks'[s] = Idle
                   /\ ~isLoadingAI'
                   /\ aiMessage' = InformationalMessage(reply)]_vars

\* a failed call has been answered with the error text, the runtime booted
C19_Witness ==
    /\ lastEvent.op = "ai"
    /\ lastEvent.outcome = "informational"
    /\ aiMessage = CallFailed
    /\ webContainer
    /\ ~isLoadingAI

\* C20: a malformed pattern yields no results.  Whenever handleSearch is
\* called with the regex option and a query that does not compile, the
\* results shown afterwards are empty, whatever an earlier search left, the
\* notice is raised, and the tree and the history are unchanged.
C20_MalformedPatternNoResults ==
    [][\A query \in Queries, options \in SearchOptions :
         (/\ options.isRegex
          /\ query # <<>>
          /\ Unterminated(query)
          /\ handleSearch(query, options))
            => /\ searchResults' = <<>>
               /\ lastEvent'.outcome = "invalidRegex"
               /\ UNCHANGED <<projectStructure, history, historyIndex>>]_vars

\* the line a replacement of the first occurrence in the line of the file
\* leaves, for the match m of the file at path
LineReplaced(nodes, path, m, regex, replaceText) ==
    LET lines == SplitLines(findFileByPath(nodes, path).content)
    IN  JoinLines([lines EXCEPT ![m.lineNumber] =
                       JsReplace(lines[m.lineNumber], regex, replaceText)])

Unreadable(text) == text \in {NotAnArray, NotJson}

\* C22: a failed load never corrupts and is never clobbered by a save.
\* When the load effect cannot parse the stored project list, it leaves
\* both keys removed and the session has no project, no active project and
\* isLoading false; and a step that calls setItem on the project-list key
\* belongs to a render in which the load has finished (isLoading false),
\* and writes the project list of the state.
C22_FailedLoadClearsAndNoEarlySave ==
    [][/\ (LoadEffect /\ Unreadable(localStorage.codematic_projects))
            => /\ localStorage' = [codematic_projects |-> NoItem,
                                   codematic_active_project_id |-> NullId]
               /\ projects' = <<>>
               /\ activeProjectId' = NullId
               /\ ~isLoading'
       /\ (\E i \in 1..Len(storageCalls') :
              storageCalls'[i] = SetItem("codematic_projects"))
            => /\ ~isLoading
               /\ ~appRender.isLoading
               /\ localStorage'.codematic_projects = JsonStringify(projects)]_vars

\* a session whose stored list was unreadable: both keys removed by the
\* load effect, no project, the save effects of the mount still to run
C22_Witness ==
    /\ storageCalls = <<RemoveItem("codematic_projects"),
                        RemoveItem("codematic_active_project_id")>>
    /\ localStorage = [codematic_projects |-> NoItem, codematic_active_project_id |-> NullId]
    /\ projects = <<>>
    /\ ~isLoading
    /\ appRender.effects = <<"saveProjects", "saveActiveProjectId">>

\* an AI request is in flight in slot s
InFlight(s) == isLoadingAI /\ tasks[s].kind = "ai"

AiTasks == {s \in Slots : tasks[s].kind = "ai"}

\* C24: at most one AI request is outstanding.  While isLoadingAI is true,
\* the send button, the refactor confirmation, a rename and a move each
\* return without a request being started (no task, no message, no tree
\* or history change), no step starts a request, and two requests are
\* never in flight together.
C24_OneAiRequestOutstanding ==
    [][/\ isLoadingAI =>
            /\ (\/ handleSendClick(ChatPrompt)
                \/ handleConfirmRefactor
                \/ \E path \in AllPaths, newName \in NewNames : handleRenameNode(path, newName)
                \/ \E sourcePath \in AllPaths, targetParentPath \in ParentPaths :
                      handleMoveNode(sourcePath, targetParentPath))
                 => /\ lastEvent'.outcome = "busy"
                    /\ UNCHANGED <<tasks, isLoadingAI, aiMessage, projectStructure, history,
                                   historyIndex, fs>>
            /\ AiTasks' \subseteq AiTasks
            /\ ~(lastEvent' # lastEvent /\ lastEvent'.outcome = "sent")
       /\ Cardinality(AiTasks') <= 1]_vars

\* a request is in flight, a task slot is free, and the refactor
\* confirmation has just returned without a second request
C24_Witness ==
    /\ isLoadingAI
    /\ Cardinality(AiTasks) = 1
    /\ FreeSlots # {}
    /\ lastEvent = [op |-> "refactor", outcome |-> "busy"]

\* C25: the history cursor is always in bounds.  In every state reached by
\* pushes, undos and redos, 0 <= historyIndex <= Len(history) - 1 and the
\* live tree is a defined tree, one of the snapshots of history.
C25_CursorInBounds ==
    /\ 0 <= historyIndex
    /\ historyIndex <= Len(history) - 1
    /\ projectStructure # undefined
    /\ \E i \in 1..Len(history) : history[i] = projectStructure

(***************************************************************************)
(* The assistant under a scheduler that runs every continuation: a pending *)
(* generateCodeFromPrompt settles (the request resolves or its rejection   *)
(* is caught in generateCodeFromPrompt), and the continuation of a settled *)
(* rm, mkdir or writeFile is run by the event loop.                        *)
(***************************************************************************)
FairAssist ==
    /\ WF_vars(\E s \in Slots, reply \in AiReplies :
                  AiRespond(s, generateCodeFromPrompt(reply)))
    /\ WF_vars(\E s \in Slots : AiResume(s))

SpecAssistLive == Init /\ [][NextAssist]_vars /\ FairAssist

\* C26: every AI request eventually completes: once isLoadingAI is true it
\* becomes false again, whether the AI call succeeds, fails, or a mkdir or
\* writeFile of the runtime filesystem is rejected while the batch is applied
C26_AiRequestEventuallyCompletes == isLoadingAI ~> ~isLoadingAI

\* C27: search terminates: for every line and every query that compiles,
\* the while loop of searchInNode is left after finitely many iterations.
\* What lineRegex.exec(line) gives depends on the line, the pattern and
\* lastIndex only, so the loop ends only if no iteration that stays in the
\* loop leaves lastIndex where it was
C27_SearchLoopAdvances ==
    [][LineExec /\ lineLoop'.pc = "loop" => lineLoop'.lastIndex > lineLoop.lastIndex]_vars

\* C28: the active buffer is always an open buffer: in every settled state
\* reached by opening, closing, confirmed deletes, AI batches, undo and redo,
\* activeFilePath is null or the path of one of the buffers of openFiles
C28_ActiveBufferIsOpen ==
    Mounted => \/ activeFilePath = NoActiveFile
               \/ \E i \in 1..Len(openFiles) : openFiles[i].path = activeFilePath

\* C29: delete closes only the buffers it removes: a confirmed delete closes
\* exactly the open buffers whose path is a deleted path or lies under one,
\* segment by segment; a buffer at any other path stays open, and stays the
\* active one if it was
C29_DeleteClosesOnlyRemoved ==
    [][handleConfirmDelete /\ lastEvent'.outcome = "commit"
         => \A i \in 1..Len(openFiles) :
               LET q == openFiles[i].path
                   removed == \E k \in 1..Len(nodesToDelete) :
                                 \/ q = nodesToDelete[k]
                                 \/ StartsWithDir(q, nodesToDelete[k])
               IN  /\ removed <=> ~\E j \in 1..Len(openFiles') : openFiles'[j].path = q
                   /\ ~removed /\ activeFilePath = q => activeFilePath' = q]_vars

\* the files of a runtime filesystem, each with its content
RuntimeFiles(f) == {<<q, f[q]>> : q \in {p \in AllPaths : f[p] \notin {"absent", "dir"}}}

\* the runtime filesystem holds the files of the live tree
FsFollowsTree ==
    RuntimeFiles(fs) = RuntimeFiles(projectStructureToWebContainerFiles(projectStructure))

\* C30: the runtime filesystem follows the tree through undo and redo: with
\* the runtime ready, no handler suspended and the runtime holding the files
\* of the live tree, an undo or a redo that leaves a tree leaves the runtime
\* holding the files of that tree
C30_RuntimeFollowsUndoRedo ==
    [][/\ handleUndo \/ handleRedo
       /\ webContainer /\ wcStatus = "ready"
       /\ \A s \in Slots : tasks[s] = Idle
       /\ FsFollowsTree
       /\ Mounted'
       => FsFollowsTree']_vars

====
